---- MODULE Spec2Model ----
(***************************************************************************)
(* The filesystem queue of kannader (smtp-queue-fs): the spool directories *)
(* data/, queue/, inflight/ and cleanup/, one enqueuing session and a set  *)
(* of queue workers, every operation cut at its filesystem calls.          *)
(***************************************************************************)
EXTENDS Integers, Sequences, FiniteSets, TLC

\* ---------------------------------------------------------------- bounds
MaxMails == 1
MaxDests == 2
MaxTime == 2
MaxOps == 6
MaxFaults == 1
MaxCrashes == 1
MaxLines == 5
MaxMx == 3
MaxIps == 2

Workers == {"w1", "w2"}
Mails == 1..MaxMails
Dests == Mails \X (1..MaxDests)
QueueDirs == {"queue", "inflight", "cleanup"}

\* ------------------------------------------------------ values and files
\* Option<DateTime<Utc>>: <<>> is None, <<t>> is Some(t).
ScheduleInfo(at, last_attempt) == [at |-> at, last_attempt |-> last_attempt]

\* The schedule handle_mail gives every destination: at = now, no attempt.
InitialSchedule == ScheduleInfo(0, <<>>)

\* The schedules a caller may pass to reschedule.
NewSchedules == {ScheduleInfo(t, <<t - 1>>) : t \in 1..MaxTime}

MailMetadata(from, to) == [from |-> from, to |-> to]

NoFile == [exists |-> FALSE, data |-> <<>>]
EmptyFile == [exists |-> TRUE, data |-> <<>>]
FileWith(bytes) == [exists |-> TRUE, data |-> bytes]

\* serde_json::to_writer of a ScheduleInfo: {"at": .., "last_attempt": null | ..}
to_writer(s) == <<s.at>> \o s.last_attempt

\* serde_json::from_reader of a ScheduleInfo: an empty or malformed file is
\* a parse error.
from_reader(f) ==
    IF f.exists /\ Len(f.data) \in {1, 2}
    THEN [ok |-> TRUE, val |-> ScheduleInfo(f.data[1], SubSeq(f.data, 2, Len(f.data)))]
    ELSE [ok |-> FALSE, val |-> InitialSchedule]

\* serde_json::to_writer of a MailMetadata
meta_to_writer(m) == <<m.from, m.to>>

\* ---------------------------------------------------------------- state
VARIABLES
    mail_dir,       \* data/<mail_uuid>/ exists
    contents,       \* data/<mail_uuid>/contents: "absent", "unflushed", "flushed"
    dest_dir,       \* data/<mail_uuid>/<dest_id>/ exists
    metadata,       \* the metadata file of each destination
    schedule,       \* the schedule file of each destination
    tmp,            \* the schedule.<uuid> files of each destination
    links,          \* the symlinks of queue/, inflight/ and cleanup/
    enq,            \* the enqueuing session: position and locals
    returned,       \* Queued handles commit returned, not yet taken by a worker
    pc,             \* position of each worker inside its operation
    mail,           \* the handle each worker holds
    ret,            \* what each worker's last operation returned
    tmp_sched_file, \* reschedule's locals: the schedule moved into the closure
                    \* and the name of its temporary file
    ops,            \* operations started so far
    faults,         \* I/O faults injected so far
    crashes,        \* crashes so far
    published,      \* destinations whose symlink commit has created
    removed,        \* destinations whose symlink cleanup has removed
    last_written,   \* schedule of the last successful write, per destination
    hmail           \* history: per message, how handle_mail of the main program
                    \* went: the end of the data stream, the calls of enqueue and
                    \* commit, the destinations handed to commit, the Decision

\* One SMTP session of the server (smtp-server, interact).
VARIABLES
    conn,           \* position of interact: "start", "read", "data", "closed",
                    \* "failed" (the writer's error returned), "panicked"
    mail_meta,      \* Option<MailMetadata>: the open mail transaction
    data_meta,      \* the MailMetadata moved into handle_mail
    line,           \* the line handle_line was last called on
    nlines,         \* lines read so far
    eof,            \* the incoming stream has ended
    replies,        \* every reply sent so far, with the number of its line
    called,         \* the Config callbacks the last step called
    decided,        \* the Decision the last of them returned: <<>> or <<d>>
    handled,        \* the MailMetadata of every handle_mail call
    txn             \* history: the envelope as the replies accepted it

session == <<conn, mail_meta, data_meta, line, nlines, eof, replies, called, decided,
             handled, txn>>

\* One Client::connect of the queue's transport and what the queue does with
\* its failure.
VARIABLES
    cpc,            \* position: "idle", "connect_to_mx", "fallback",
                    \* "connect_to_host", "done", "panicked"
    mx_records,     \* the BTreeMap of MX records not iterated yet
    mxes,           \* the shuffled records of the current preference level left
    via_mx,         \* connect_to_host was called from the loop of connect_to_mx
    lookup,         \* the addresses of the current host left to try
    first_error,    \* first_error of connect_to_mx: <<>> or <<e>>
    host_error,     \* first_error of connect_to_host: <<>> or <<e>>
    result,         \* what connect returned
    failure,        \* the TransportFailure the queue was given
    effect,         \* what the queue did with the destination
    attempts,       \* history: every lookup_ip and connect_to_ip, in order
    first_failed,   \* history: the error of the first failed one
    first_tcp,      \* history: the attempt whose TCP connect succeeded first
    dest,           \* history: the Hostname of the Destination: "ip" or "domain"
    dns             \* history: every resolver query, in order, with its answer

connecting == <<cpc, mx_records, mxes, via_mx, lookup, first_error, host_error, result,
                failure, effect, attempts, first_failed, first_tcp, dest, dns>>

\* The replies connect_to_stream reads on one connection: its locals rdbuf and
\* unhandled, shared by its read_reply calls.
VARIABLES
    rdbuf,          \* the read buffer, RDBUF_SIZE bytes
    unhandled,      \* the range of rdbuf holding bytes received and not parsed
    rpc,            \* position: "idle" between calls, "loop" inside read_reply,
                    \* "closed" once a call returned an error
    rr,             \* what the last read_reply call returned
    nreplies,       \* read_reply calls made so far
    needed,         \* the nom::Needed of the last Incomplete parse
    pending,        \* history: the bytes received and not yet returned in a reply
    moved           \* history: how many times the buffer was compacted

reader == <<rdbuf, unhandled, rpc, rr, nreplies, needed, pending, moved>>

client == <<connecting, reader>>

disk == <<mail_dir, contents, dest_dir, metadata, schedule, tmp, links>>
ghost == <<published, removed, last_written>>
vars == <<mail_dir, contents, dest_dir, metadata, schedule, tmp, links, enq,
          returned, pc, mail, ret, tmp_sched_file, ops, faults, crashes, published, removed,
          last_written, hmail, conn, mail_meta, data_meta, line, nlines, eof, replies, called,
          decided, handled, txn, cpc, mx_records, mxes, via_mx, lookup, first_error,
          host_error, result, failure, effect, attempts, first_failed, first_tcp, dest,
          dns, rdbuf, unhandled, rpc, rr, nreplies, needed, pending,
          moved>>

\* --------------------------------------------------------------- handles
\* A handle is FsQueuedMail, FsInflightMail or FsPendingCleanupMail.  `id` is
\* the QueueId; `kind` says what string the QueueId holds: "name" is the bare
\* symlink name (make_dest_dir), and "queue", "inflight", "cleanup" are the
\* path of the symlink below the spool root, as scan_folder builds it from
\* WalkDir's entry path.  `via` and `orig` are history: how the handle was
\* obtained and the schedule file at the time of send_start.
NoMail == [type |-> "none", id |-> <<0, 0>>, kind |-> "none",
           schedule |-> InitialSchedule, via |-> "none", orig |-> NoFile]

Handle(type, id, kind, sched, via) ==
    [type |-> type, id |-> id, kind |-> kind, schedule |-> sched,
     via |-> via, orig |-> NoFile]

FoundMail(id, kind, sched) == Handle("found", id, kind, sched, "scan")

FsQueuedMail_found(f) == [f EXCEPT !.type = "Queued"]
FsInflightMail_found(f) == [f EXCEPT !.type = "Inflight"]
FsPendingCleanupMail_found(id, kind) ==
    Handle("PendingCleanup", id, kind, InitialSchedule, "scan")

into_inflight(m) == [m EXCEPT !.type = "Inflight", !.via = "send_start"]
into_queued(m) == [m EXCEPT !.type = "Queued", !.via = "send_cancel", !.orig = NoFile]
into_pending_cleanup(m) ==
    [m EXCEPT !.type = "PendingCleanup", !.schedule = InitialSchedule,
              !.via = "moved", !.orig = NoFile]

\* The main program opens the spool at an absolute path (QUEUE_DIR), so a
\* QueueId built by scan_folder is an absolute path: the *at() calls ignore
\* the directory they are given and resolve it in the directory it names.
\* A bare name resolves in the directory the call is given.
Resolve(dir, m) == IF m.kind = "name" THEN dir ELSE m.kind

\* ------------------------------------------------------------ filesystem
\* A move that links the destination in dst and leaves the link in src.
rename_keeps_source(l, src, dst, id) == [l EXCEPT ![dst] = @ \cup {id}]

\* openat::rename of a symlink between two queue directories; a rename of a
\* path to itself changes nothing.
rename(l, src, dst, id) ==
    IF src = dst THEN l
    ELSE [l EXCEPT ![src] = @ \ {id}, ![dst] = @ \cup {id}]

\* The destination directory has no entry left (rmdir succeeds).
DestDirEmpty(d) ==
    /\ ~metadata[d].exists
    /\ ~schedule[d].exists
    /\ DOMAIN tmp[d] = {}

\* The destination sub-directories a listing of data/<mail_uuid>/ shows.
DestDirsOf(c) == {d \in Dests : d[1] = c /\ dest_dir[d]}

\* A fresh schedule.<uuid> name in a destination directory.
FreshTmp(d) == CHOOSE n \in 1..(Cardinality(DOMAIN tmp[d]) + 1) : n \notin DOMAIN tmp[d]

AddTmp(d, n, f) == [x \in DOMAIN tmp[d] \cup {n} |-> IF x = n THEN f ELSE tmp[d][x]]
DelTmp(d, n) == [x \in DOMAIN tmp[d] \ {n} |-> tmp[d][x]]

CanFault == faults < MaxFaults
Linked(d) == \E q \in QueueDirs : d \in links[q]

\* ------------------------------------------------- the enqueuing session
EnqIdle(next) == [pc |-> "idle", mail |-> 0, n |-> 0, k |-> 0, j |-> 0,
                  queued |-> {}, next |-> next]

NoTmp == [name |-> 0, schedule |-> InitialSchedule]

NoRet == [op |-> "none", res |-> "none", id |-> <<0, 0>>]
Ret(op, res, id) == [op |-> op, res |-> res, id |-> id]

workers_unchanged == UNCHANGED <<pc, mail, ret, tmp_sched_file, ops, session, client>>

\* smtp_server::reply of the main program: the replies handle_mail decides.
okay_mail == [code |-> 250, text |-> "okay_mail"]
internal_server_error == [code |-> 451, text |-> "internal_server_error"]

\* Decision::Accept { reply, res } and Decision::Reject { reply }
NoDecision == [kind |-> "none", reply |-> [code |-> 0, text |-> ""]]
Decision_Accept(reply) == [kind |-> "Accept", reply |-> reply]
Decision_Reject(reply) == [kind |-> "Reject", reply |-> reply]

\* How the read loop of handle_mail ends: the terminator was read, the input
\* ended before it, stream.read failed, enqueuer.write_all failed.
StreamEnds == {"Finished", "EndOfInput", "ReadError", "WriteError"}

NoHandleMail == [stream |-> "none", enqueues |-> 0, commits |-> 0,
                 decision |-> NoDecision]

\* A stream that always reports the terminator as read.
is_finished_always(end) == TRUE

\* stream.is_finished()
is_finished(end) == end = "Finished"

\* FsStorage::enqueue, create_dir: data/<mail_uuid>/ is created.
enqueue_create_dir ==
    /\ enq.pc = "idle"
    /\ enq.next < MaxMails
    /\ mail_dir' = [mail_dir EXCEPT ![enq.next + 1] = TRUE]
    /\ enq' = [enq EXCEPT !.pc = "new_file", !.mail = enq.next + 1, !.next = @ + 1]
    /\ hmail' = [hmail EXCEPT ![enq.next + 1].enqueues = @ + 1]
    /\ UNCHANGED <<contents, dest_dir, metadata, schedule, tmp, links, returned,
                   faults, crashes, published, removed, last_written>>
    /\ workers_unchanged

\* FsStorage::enqueue, new_file(CONTENTS_FILE): on an error the function
\* returns with the directory left behind, and handle_mail rejects.
enqueue_new_file ==
    /\ enq.pc = "new_file"
    /\ \/ /\ contents' = [contents EXCEPT ![enq.mail] = "unflushed"]
          /\ enq' = [enq EXCEPT !.pc = "writing"]
          /\ UNCHANGED <<faults, hmail>>
       \/ /\ CanFault
          /\ faults' = faults + 1
          /\ enq' = EnqIdle(enq.next)
          /\ hmail' = [hmail EXCEPT
                ![enq.mail].decision = Decision_Reject(internal_server_error)]
          /\ UNCHANGED contents
    /\ UNCHANGED <<mail_dir, dest_dir, metadata, schedule, tmp, links, returned,
                   crashes, published, removed, last_written>>
    /\ workers_unchanged

\* handle_mail returning Reject after enqueue (write error, read error or a
\* stream that did not finish): the FsEnqueuer is dropped; it has no Drop.
handle_mail_reject ==
    /\ enq.pc = "writing"
    /\ \E end \in StreamEnds :
          /\ end \in {"ReadError", "WriteError"} \/ ~is_finished(end)
          /\ IF end = "WriteError"
             THEN CanFault /\ faults' = faults + 1
             ELSE UNCHANGED faults
          /\ hmail' = [hmail EXCEPT
                ![enq.mail].stream = end,
                ![enq.mail].decision = Decision_Reject(internal_server_error)]
    /\ enq' = EnqIdle(enq.next)
    /\ UNCHANGED <<disk, returned, crashes, ghost>>
    /\ workers_unchanged

\* The stream is finished: stream.complete(), then enqueuer.commit with one
\* destination per recipient.  FsEnqueuer::commit, self.flush(): on an error
\* cleanup_contents_dir runs.
commit_flush ==
    /\ enq.pc = "writing"
    /\ \E end \in {"Finished", "EndOfInput"} :
          /\ is_finished(end)
          /\ hmail' = [hmail EXCEPT ![enq.mail].stream = end,
                                    ![enq.mail].commits = @ + 1]
    /\ \/ /\ \E n \in 1..MaxDests :
                enq' = [enq EXCEPT !.pc = "md_create_dir", !.n = n, !.k = 1]
          /\ contents' = [contents EXCEPT ![enq.mail] = "flushed"]
          /\ UNCHANGED faults
       \/ /\ CanFault
          /\ faults' = faults + 1
          /\ enq' = [enq EXCEPT !.pc = "cc_contents"]
          /\ UNCHANGED contents
    /\ UNCHANGED <<mail_dir, dest_dir, metadata, schedule, tmp, links, returned,
                   crashes, published, removed, last_written>>
    /\ workers_unchanged

\* The Err arm of commit's loop: cleanup_dest_dir for destinations[0..d],
\* then cleanup_contents_dir.  The failed destination itself is not cleaned.
commit_failed(e) ==
    IF e.k > 1 THEN [e EXCEPT !.pc = "cd_metadata", !.j = 1]
    ELSE [e EXCEPT !.pc = "cc_contents"]

EnqDest == <<enq.mail, enq.k>>

\* make_dest_dir, mail_dir.create_dir(dest_id)
md_create_dir ==
    /\ enq.pc = "md_create_dir"
    /\ \/ /\ mail_dir[enq.mail]
          /\ dest_dir' = [dest_dir EXCEPT ![EnqDest] = TRUE]
          /\ enq' = [enq EXCEPT !.pc = "md_schedule"]
          /\ UNCHANGED faults
       \/ /\ ~mail_dir[enq.mail]
          /\ enq' = commit_failed(enq)
          /\ UNCHANGED <<dest_dir, faults>>
       \/ /\ CanFault
          /\ faults' = faults + 1
          /\ enq' = commit_failed(enq)
          /\ UNCHANGED dest_dir
    /\ UNCHANGED <<mail_dir, contents, metadata, schedule, tmp, links, returned,
                   crashes, published, removed, last_written>>
    /\ UNCHANGED hmail
    /\ workers_unchanged

\* make_dest_dir, new_file(SCHEDULE_FILE) and to_writer(schedule)
md_schedule ==
    /\ enq.pc = "md_schedule"
    /\ \/ /\ schedule' = [schedule EXCEPT ![EnqDest] = FileWith(to_writer(InitialSchedule))]
          /\ last_written' = [last_written EXCEPT ![EnqDest] = <<InitialSchedule>>]
          /\ enq' = [enq EXCEPT !.pc = "md_metadata"]
          /\ UNCHANGED faults
       \/ /\ CanFault
          /\ faults' = faults + 1
          /\ \E f \in {NoFile, EmptyFile} : schedule' = [schedule EXCEPT ![EnqDest] = f]
          /\ enq' = commit_failed(enq)
          /\ UNCHANGED last_written
    /\ UNCHANGED <<mail_dir, contents, dest_dir, metadata, tmp, links, returned,
                   crashes, published, removed>>
    /\ UNCHANGED hmail
    /\ workers_unchanged

\* make_dest_dir, new_file(METADATA_FILE) and to_writer(metadata)
md_metadata ==
    /\ enq.pc = "md_metadata"
    /\ \/ /\ metadata' = [metadata EXCEPT
                ![EnqDest] = FileWith(meta_to_writer(MailMetadata(enq.mail, enq.k)))]
          /\ enq' = [enq EXCEPT !.pc = "md_symlink"]
          /\ UNCHANGED faults
       \/ /\ CanFault
          /\ faults' = faults + 1
          /\ \E f \in {NoFile, EmptyFile} : metadata' = [metadata EXCEPT ![EnqDest] = f]
          /\ enq' = commit_failed(enq)
    /\ UNCHANGED <<mail_dir, contents, dest_dir, schedule, tmp, links, returned,
                   crashes, published, removed, last_written>>
    /\ UNCHANGED hmail
    /\ workers_unchanged

\* make_dest_dir, queue.symlink(dest_uuid, symlink_value): the destination is
\* published.  After the last destination commit returns the Queued handles.
md_symlink ==
    /\ enq.pc = "md_symlink"
    /\ \/ /\ links' = [links EXCEPT !["queue"] = @ \cup {EnqDest}]
          /\ published' = published \cup {EnqDest}
          /\ IF enq.k < enq.n
             THEN /\ enq' = [enq EXCEPT !.pc = "md_create_dir", !.k = @ + 1,
                                        !.queued = @ \cup {EnqDest}]
                  /\ UNCHANGED returned
                  /\ UNCHANGED hmail
             ELSE /\ enq' = EnqIdle(enq.next)
                  /\ returned' = returned \cup
                        {Handle("Queued", d, "name", InitialSchedule, "commit") :
                            d \in enq.queued \cup {EnqDest}}
                  /\ hmail' = [hmail EXCEPT
                        ![enq.mail].decision = Decision_Accept(okay_mail)]
          /\ UNCHANGED faults
       \/ /\ CanFault
          /\ faults' = faults + 1
          /\ enq' = commit_failed(enq)
          /\ UNCHANGED <<links, published, returned, hmail>>
    /\ UNCHANGED <<mail_dir, contents, dest_dir, metadata, schedule, tmp,
                   crashes, removed, last_written>>
    /\ workers_unchanged

CdDest == <<enq.mail, enq.j>>

\* After cleanup_dest_dir of destination j: the next one, or the contents.
cd_next(e) ==
    IF e.j + 1 < e.k THEN [e EXCEPT !.pc = "cd_metadata", !.j = @ + 1]
    ELSE [e EXCEPT !.pc = "cc_contents"]

\* cleanup_dest_dir, sub_dir(dest_id) and remove_file(METADATA_FILE)
cd_metadata ==
    /\ enq.pc = "cd_metadata"
    /\ IF dest_dir[CdDest]
       THEN /\ metadata' = [metadata EXCEPT ![CdDest] = NoFile]
            /\ enq' = [enq EXCEPT !.pc = "cd_schedule"]
       ELSE /\ enq' = cd_next(enq)
            /\ UNCHANGED metadata
    /\ UNCHANGED <<mail_dir, contents, dest_dir, schedule, tmp, links, returned,
                   faults, crashes, ghost>>
    /\ UNCHANGED hmail
    /\ workers_unchanged

\* cleanup_dest_dir, remove_file(SCHEDULE_FILE)
cd_schedule ==
    /\ enq.pc = "cd_schedule"
    /\ schedule' = [schedule EXCEPT ![CdDest] = NoFile]
    /\ enq' = [enq EXCEPT !.pc = "cd_rmdir"]
    /\ UNCHANGED <<mail_dir, contents, dest_dir, metadata, tmp, links, returned,
                   faults, crashes, ghost>>
    /\ UNCHANGED hmail
    /\ workers_unchanged

\* cleanup_dest_dir, mail_dir.remove_dir(dest_id): its error is ignored.
cd_rmdir ==
    /\ enq.pc = "cd_rmdir"
    /\ dest_dir' = [dest_dir EXCEPT ![CdDest] = dest_dir[CdDest] /\ ~DestDirEmpty(CdDest)]
    /\ enq' = cd_next(enq)
    /\ UNCHANGED <<mail_dir, contents, metadata, schedule, tmp, links, returned,
                   faults, crashes, ghost>>
    /\ UNCHANGED hmail
    /\ workers_unchanged

\* cleanup_contents_dir, mail_dir.remove_file(CONTENTS_FILE)
cc_contents ==
    /\ enq.pc = "cc_contents"
    /\ contents' = [contents EXCEPT ![enq.mail] = "absent"]
    /\ enq' = [enq EXCEPT !.pc = "cc_dir"]
    /\ UNCHANGED <<mail_dir, dest_dir, metadata, schedule, tmp, links, returned,
                   faults, crashes, ghost>>
    /\ UNCHANGED hmail
    /\ workers_unchanged

\* cleanup_contents_dir, queue.remove_dir(mail_uuid): the directory handed in
\* is queue/, which holds no entry named mail_uuid, so the call fails with
\* NotFound, the error is dropped and data/<mail_uuid>/ stays.
queue_remove_dir(md, c) == md

cc_dir ==
    /\ enq.pc = "cc_dir"
    /\ mail_dir' = queue_remove_dir(mail_dir, enq.mail)
    /\ enq' = [EnqIdle(enq.next) EXCEPT !.mail = enq.mail, !.k = enq.k, !.pc = "failed"]
    /\ UNCHANGED <<contents, dest_dir, metadata, schedule, tmp, links, returned,
                   faults, crashes, ghost>>
    /\ UNCHANGED hmail
    /\ workers_unchanged

\* commit has returned Err: handle_mail rejects and the session goes on.
commit_returned_err ==
    /\ enq.pc = "failed"
    /\ enq' = EnqIdle(enq.next)
    /\ hmail' = [hmail EXCEPT
          ![enq.mail].decision = Decision_Reject(internal_server_error)]
    /\ UNCHANGED <<disk, returned, faults, crashes, ghost>>
    /\ workers_unchanged

\* ------------------------------------------------------ the queue workers
enq_unchanged == UNCHANGED <<enq, returned, hmail, session, client>>
Idle(w) == pc[w] = "idle"
CanStart(w) == Idle(w) /\ ops < MaxOps

\* A worker of the queue engine receives one of the handles commit returned.
take(w) ==
    /\ Idle(w)
    /\ mail[w] = NoMail
    /\ \E m \in returned :
          /\ mail' = [mail EXCEPT ![w] = m]
          /\ returned' = returned \ {m}
    /\ ret' = [ret EXCEPT ![w] = NoRet]
    /\ UNCHANGED <<disk, enq, pc, tmp_sched_file, ops, faults, crashes, ghost, hmail,
                   session, client>>

\* scan_folder: one symlink of the directory, its QueueId the entry's path.
scan_folder(dir) == {[id |-> d, kind |-> dir] : d \in links[dir]}

\* scan_queue: open <id>/schedule (through the symlink) and parse it.
scan_queue(e) ==
    LET r == from_reader(schedule[e.id])
    IN  [ok |-> r.ok, found |-> FoundMail(e.id, e.kind, r.val)]

\* One item of a lister's stream: the handle `found` built from the entry e,
\* or the error scan_queue gave for it.
Scan(w, op, e, found) ==
    /\ CanStart(w)
    /\ mail[w] = NoMail
    /\ ops' = ops + 1
    /\ IF scan_queue(e).ok
       THEN /\ mail' = [mail EXCEPT ![w] = found]
            /\ ret' = [ret EXCEPT ![w] = Ret(op, "Ok", e.id)]
       ELSE /\ ret' = [ret EXCEPT ![w] = Ret(op, "Err", e.id)]
            /\ UNCHANGED mail
    /\ UNCHANGED <<disk, pc, tmp_sched_file, faults, crashes, ghost>>
    /\ enq_unchanged

list_queue(w) ==
    \E e \in scan_folder("queue") :
        Scan(w, "list_queue", e, FsQueuedMail_found(scan_queue(e).found))

find_inflight(w) ==
    \E e \in scan_folder("inflight") :
        Scan(w, "find_inflight", e, FsInflightMail_found(scan_queue(e).found))

find_pending_cleanup(w) ==
    /\ CanStart(w)
    /\ mail[w] = NoMail
    /\ ops' = ops + 1
    /\ \E e \in scan_folder("cleanup") :
          /\ mail' = [mail EXCEPT ![w] = FsPendingCleanupMail_found(e.id, e.kind)]
          /\ ret' = [ret EXCEPT ![w] = Ret("find_pending_cleanup", "Ok", e.id)]
    /\ UNCHANGED <<disk, pc, tmp_sched_file, faults, crashes, ghost>>
    /\ enq_unchanged

\* The four moves between queues: one rename of the symlink, after which the
\* handle becomes `into`.  NotFound is Ok(None) and consumes the handle, any
\* other error gives the handle back.
Move(w, op, type, src, dst, into) ==
    LET m == mail[w]
        s == Resolve(src, m)
        t == Resolve(dst, m)
    IN  /\ CanStart(w)
        /\ m.type = type
        /\ ops' = ops + 1
        /\ \/ /\ m.id \in links[s]
              /\ links' = rename(links, s, t, m.id)
              /\ mail' = [mail EXCEPT ![w] =
                    IF op = "send_start"
                    THEN [into EXCEPT !.orig = schedule[m.id]]
                    ELSE into]
              /\ ret' = [ret EXCEPT ![w] = Ret(op, "Some", m.id)]
              /\ UNCHANGED faults
           \/ /\ m.id \notin links[s]
              /\ mail' = [mail EXCEPT ![w] = NoMail]
              /\ ret' = [ret EXCEPT ![w] = Ret(op, "None", m.id)]
              /\ UNCHANGED <<links, faults>>
           \/ /\ CanFault
              /\ faults' = faults + 1
              /\ ret' = [ret EXCEPT ![w] = Ret(op, "Err", m.id)]
              /\ UNCHANGED <<links, mail>>
        /\ UNCHANGED <<mail_dir, contents, dest_dir, metadata, schedule, tmp, pc,
                       tmp_sched_file, crashes, ghost>>
        /\ enq_unchanged

send_start(w) ==
    Move(w, "send_start", "Queued", "queue", "inflight", into_inflight(mail[w]))

send_done(w) ==
    Move(w, "send_done", "Inflight", "inflight", "cleanup", into_pending_cleanup(mail[w]))

send_cancel(w) ==
    Move(w, "send_cancel", "Inflight", "inflight", "queue", into_queued(mail[w]))

drop(w) ==
    Move(w, "drop", "Queued", "queue", "cleanup", into_pending_cleanup(mail[w]))

\* reschedule: mail.schedule = schedule, then queue.sub_dir(id), which
\* follows the symlink and keeps the destination directory open.
reschedule(w) ==
    /\ CanStart(w)
    /\ mail[w].type = "Queued"
    /\ ops' = ops + 1
    /\ \E s \in NewSchedules :
          /\ mail' = [mail EXCEPT ![w].schedule = s]
          /\ IF mail[w].id \in links[Resolve("queue", mail[w])] /\ dest_dir[mail[w].id]
             THEN /\ pc' = [pc EXCEPT ![w] = "rs_tmp"]
                  /\ tmp_sched_file' = [tmp_sched_file EXCEPT ![w] = [NoTmp EXCEPT !.schedule = s]]
                  /\ ret' = [ret EXCEPT ![w] = NoRet]
             ELSE /\ ret' = [ret EXCEPT ![w] = Ret("reschedule", "Err", mail[w].id)]
                  /\ UNCHANGED <<pc, tmp_sched_file>>
    /\ UNCHANGED <<disk, faults, crashes, ghost>>
    /\ enq_unchanged

\* reschedule: new_file(schedule.<uuid>) and to_writer into it.
rs_tmp(w) ==
    LET d == mail[w].id
        n == FreshTmp(d)
    IN  /\ pc[w] = "rs_tmp"
        /\ \/ /\ dest_dir[d]
              /\ tmp' = [tmp EXCEPT ![d] =
                    AddTmp(d, n, FileWith(to_writer(tmp_sched_file[w].schedule)))]
              /\ tmp_sched_file' = [tmp_sched_file EXCEPT ![w].name = n]
              /\ pc' = [pc EXCEPT ![w] = "rs_rename"]
              /\ UNCHANGED <<ret, faults>>
           \/ /\ ~dest_dir[d]
              /\ pc' = [pc EXCEPT ![w] = "idle"]
              /\ ret' = [ret EXCEPT ![w] = Ret("reschedule", "Err", d)]
              /\ tmp_sched_file' = [tmp_sched_file EXCEPT ![w] = NoTmp]
              /\ UNCHANGED <<tmp, faults>>
           \/ /\ CanFault
              /\ dest_dir[d]
              /\ faults' = faults + 1
              /\ \/ tmp' = [tmp EXCEPT ![d] = AddTmp(d, n, EmptyFile)]
                 \/ UNCHANGED tmp
              /\ pc' = [pc EXCEPT ![w] = "idle"]
              /\ ret' = [ret EXCEPT ![w] = Ret("reschedule", "Err", d)]
              /\ tmp_sched_file' = [tmp_sched_file EXCEPT ![w] = NoTmp]
        /\ UNCHANGED <<mail_dir, contents, dest_dir, metadata, schedule, links,
                       mail, ops, crashes, ghost>>
        /\ enq_unchanged

\* A schedule replaced in place: truncated, to be written afterwards.
local_rename_truncates(sched, t, d, n) == [sched EXCEPT ![d] = EmptyFile]

\* A rename that leaves the old schedule file in place.
local_rename_keeps_old(sched, t, d, n) == sched

\* local_rename(tmp_sched_file, SCHEDULE_FILE) inside the destination directory.
local_rename(sched, t, d, n) == [sched EXCEPT ![d] = t[d][n]]

\* reschedule: the rename over the schedule file, then Ok(()).
rs_rename(w) ==
    LET d == mail[w].id
        n == tmp_sched_file[w].name
    IN  /\ pc[w] = "rs_rename"
        /\ \/ /\ schedule' = local_rename(schedule, tmp, d, n)
              /\ tmp' = [tmp EXCEPT ![d] = DelTmp(d, n)]
              /\ last_written' = [last_written EXCEPT ![d] = <<tmp_sched_file[w].schedule>>]
              /\ ret' = [ret EXCEPT ![w] = Ret("reschedule", "Ok", d)]
              /\ UNCHANGED faults
           \/ /\ CanFault
              /\ faults' = faults + 1
              /\ ret' = [ret EXCEPT ![w] = Ret("reschedule", "Err", d)]
              /\ UNCHANGED <<schedule, tmp, last_written>>
        /\ pc' = [pc EXCEPT ![w] = "idle"]
        /\ tmp_sched_file' = [tmp_sched_file EXCEPT ![w] = NoTmp]
        /\ UNCHANGED <<mail_dir, contents, dest_dir, metadata, links, mail, ops,
                       crashes, published, removed>>
        /\ enq_unchanged

\* ---------------------------------------------------------------- cleanup
CleanupReturns(w, res) ==
    /\ pc' = [pc EXCEPT ![w] = "idle"]
    /\ ret' = [ret EXCEPT ![w] = Ret("cleanup", res, mail[w].id)]
    /\ mail' = [mail EXCEPT ![w] = IF res = "Err" THEN mail[w] ELSE NoMail]

CleanupGoes(w, to) ==
    /\ pc' = [pc EXCEPT ![w] = to]
    /\ UNCHANGED <<mail, ret>>

\* cleanup.read_link(id) and cleanup.sub_dir(id): NotFound from either (the
\* symlink is gone, or it dangles) is Ok(false).
cleanup(w) ==
    LET d == mail[w].id
    IN  /\ CanStart(w)
        /\ mail[w].type = "PendingCleanup"
        /\ ops' = ops + 1
        /\ IF d \in links[Resolve("cleanup", mail[w])] /\ dest_dir[d]
           THEN /\ pc' = [pc EXCEPT ![w] = "cl_metadata"]
                /\ ret' = [ret EXCEPT ![w] = NoRet]
                /\ UNCHANGED mail
           ELSE CleanupReturns(w, "false")
        /\ UNCHANGED <<disk, tmp_sched_file, faults, crashes, ghost>>
        /\ enq_unchanged

\* dest_dir.remove_file(METADATA_FILE), NotFound ignored
cl_metadata(w) ==
    /\ pc[w] = "cl_metadata"
    /\ metadata' = [metadata EXCEPT ![mail[w].id] = NoFile]
    /\ CleanupGoes(w, "cl_schedule")
    /\ UNCHANGED <<mail_dir, contents, dest_dir, schedule, tmp, links,
                   tmp_sched_file, ops, faults, crashes, ghost>>
    /\ enq_unchanged

\* dest_dir.remove_file(SCHEDULE_FILE), NotFound ignored
cl_schedule(w) ==
    /\ pc[w] = "cl_schedule"
    /\ schedule' = [schedule EXCEPT ![mail[w].id] = NoFile]
    /\ CleanupGoes(w, "cl_rmdir")
    /\ UNCHANGED <<mail_dir, contents, dest_dir, metadata, tmp, links,
                   tmp_sched_file, ops, faults, crashes, ghost>>
    /\ enq_unchanged

\* dest_dir.sub_dir("..") (NotFound is Ok(false)) and
\* mail_dir.remove_dir(dest_name): a directory that is not empty is an error.
cl_rmdir(w) ==
    LET d == mail[w].id
    IN  /\ pc[w] = "cl_rmdir"
        /\ IF ~dest_dir[d]
           THEN CleanupReturns(w, "false") /\ UNCHANGED dest_dir
           ELSE IF ~DestDirEmpty(d)
           THEN CleanupReturns(w, "Err") /\ UNCHANGED dest_dir
           ELSE /\ dest_dir' = [dest_dir EXCEPT ![d] = FALSE]
                /\ CleanupGoes(w, "cl_list")
        /\ UNCHANGED <<mail_dir, contents, metadata, schedule, tmp, links,
                       tmp_sched_file, ops, faults, crashes, ghost>>
        /\ enq_unchanged

\* should_rm_mail_dir: every entry of data/<mail_uuid>/ is CONTENTS_FILE.
should_rm_mail_dir(c) == DestDirsOf(c) = {}

\* mail_dir.list_self() (NotFound is Ok(false)) and should_rm_mail_dir
cl_list(w) ==
    LET c == mail[w].id[1]
    IN  /\ pc[w] = "cl_list"
        /\ IF ~mail_dir[c]
           THEN CleanupReturns(w, "false")
           ELSE IF should_rm_mail_dir(c)
           THEN CleanupGoes(w, "cl_contents")
           ELSE CleanupGoes(w, "cl_link")
        /\ UNCHANGED <<disk, tmp_sched_file, ops, faults, crashes, ghost>>
        /\ enq_unchanged

\* mail_dir.remove_file(CONTENTS_FILE), NotFound ignored
cl_contents(w) ==
    /\ pc[w] = "cl_contents"
    /\ contents' = [contents EXCEPT ![mail[w].id[1]] = "absent"]
    /\ CleanupGoes(w, "cl_datadir")
    /\ UNCHANGED <<mail_dir, dest_dir, metadata, schedule, tmp, links,
                   tmp_sched_file, ops, faults, crashes, ghost>>
    /\ enq_unchanged

\* data.remove_dir(mail_name): NotFound ignored, not empty is an error.
cl_datadir(w) ==
    LET c == mail[w].id[1]
    IN  /\ pc[w] = "cl_datadir"
        /\ IF ~mail_dir[c]
           THEN CleanupGoes(w, "cl_link") /\ UNCHANGED mail_dir
           ELSE IF contents[c] # "absent" \/ DestDirsOf(c) # {}
           THEN CleanupReturns(w, "Err") /\ UNCHANGED mail_dir
           ELSE /\ mail_dir' = [mail_dir EXCEPT ![c] = FALSE]
                /\ CleanupGoes(w, "cl_link")
        /\ UNCHANGED <<contents, dest_dir, metadata, schedule, tmp, links,
                       tmp_sched_file, ops, faults, crashes, ghost>>
        /\ enq_unchanged

\* cleanup.remove_file(id): Ok(true), or Ok(false) when it is gone.
cl_link(w) ==
    LET d == mail[w].id
        q == Resolve("cleanup", mail[w])
    IN  /\ pc[w] = "cl_link"
        /\ IF d \in links[q]
           THEN /\ links' = [links EXCEPT ![q] = @ \ {d}]
                /\ removed' = removed \cup {d}
                /\ CleanupReturns(w, "true")
           ELSE /\ CleanupReturns(w, "false")
                /\ UNCHANGED <<links, removed>>
        /\ UNCHANGED <<mail_dir, contents, dest_dir, metadata, schedule, tmp,
                       tmp_sched_file, ops, faults, crashes, published, last_written>>
        /\ enq_unchanged

\* --------------------------------------------------------- the SMTP session
Senders == {<<>>, <<"a">>}
Rcpts == {"a", "b"}

\* A CRLF-terminated line next_crlf_line returns, by what it spells.
Line(verb, arg) == [verb |-> verb, arg |-> arg]
NoLine == Line("none", <<>>)
Lines ==
    {Line("MAIL", f) : f \in Senders} \cup {Line("RCPT", <<t>>) : t \in Rcpts}
        \cup {Line(v, <<>>) : v \in {"DATA", "QUIT", "EHLO", "HELO", "RSET", "garbage"}}

\* Command::parse: the verbs of the wire grammar give their Command, any
\* other line is an error.
Command_parse(l) ==
    CASE l.verb = "MAIL" -> [ok |-> TRUE, cmd |-> "Mail", arg |-> l.arg]
      [] l.verb = "RCPT" -> [ok |-> TRUE, cmd |-> "Rcpt", arg |-> l.arg]
      [] l.verb = "DATA" -> [ok |-> TRUE, cmd |-> "Data", arg |-> <<>>]
      [] l.verb = "QUIT" -> [ok |-> TRUE, cmd |-> "Quit", arg |-> <<>>]
      [] l.verb = "EHLO" -> [ok |-> TRUE, cmd |-> "Ehlo", arg |-> <<>>]
      [] l.verb = "HELO" -> [ok |-> TRUE, cmd |-> "Helo", arg |-> <<>>]
      [] l.verb = "RSET" -> [ok |-> TRUE, cmd |-> "Rset", arg |-> <<>>]
      [] OTHER -> [ok |-> FALSE, cmd |-> "none", arg |-> <<>>]

\* A reply: its code, the Config callback or Refusal its text comes from, and
\* (history) the number of the line it answers, 0 for the banner.
ReplyLine(code, via) == [code |-> code, via |-> via, n |-> 0]

welcome_banner == ReplyLine(220, "welcome_banner")
mail_okay == ReplyLine(250, "mail_okay")
rcpt_okay == ReplyLine(250, "rcpt_okay")
data_okay == ReplyLine(354, "data_okay")
mail_accepted == ReplyLine(250, "mail_accepted")
already_in_mail == ReplyLine(503, "already_in_mail")
rcpt_before_mail == ReplyLine(503, "rcpt_before_mail")
data_before_mail == ReplyLine(503, "data_before_mail")
data_before_rcpt == ReplyLine(503, "data_before_rcpt")
\* An unimplemented command answered as if it had not parsed.
command_unimplemented_as_syntax == ReplyLine(500, "command_unimplemented")

command_unimplemented == ReplyLine(502, "command_unimplemented")

command_unrecognized == ReplyLine(500, "command_unrecognized")

\* Decision: Accept, or Reject(Refusal { code, msg }).
Refusal(code, msg) == [code |-> code, msg |-> msg]
Refusals == {Refusal(550, "policy reason"), Refusal(503, "bad sequence")}
Accept == [accept |-> TRUE, r |-> Refusal(0, "")]
Reject(r) == [accept |-> FALSE, r |-> r]
Decisions == {Accept} \cup {Reject(r) : r \in Refusals}

\* A reply that keeps the Refusal's text under one fixed code.
refusal_reply_fixed_code(r) == ReplyLine(550, r.msg)

\* (r.code, r.msg) as a reply
refusal_reply(r) == ReplyLine(r.code, r.msg)

\* Option<MailMetadata>: <<>> is None, <<m>> is Some(m).
ServerMailMetadata(from, to) == [from |-> from, to |-> to]
NoTxn == ServerMailMetadata(<<>>, <<>>)

queue_unchanged ==
    UNCHANGED <<disk, enq, returned, pc, mail, ret, tmp_sched_file, ops, faults,
                crashes, ghost, hmail>>

\* next_crlf_line gives a line to handle_line.
CanRead == conn = "read" /\ ~eof /\ nlines < MaxLines

\* A writer that accepts a reply and loses it.
writer_send_lost(rs, r) == rs

\* The reply goes into the Sink: writer.send(r)
writer_send(rs, r) == Append(rs, r)

\* send_reply(writer, r) for line l, with mail_meta `before` at the time of
\* the send and `after` once the match arm is over; an error of the writer
\* ends interact at the `?`.
send_reply(l, r, before, after, calls, d) ==
    /\ line' = l
    /\ nlines' = nlines + 1
    /\ called' = calls
    /\ decided' = IF calls = {} THEN <<>> ELSE <<d>>
    /\ \/ /\ replies' = writer_send(replies, [r EXCEPT !.n = nlines + 1])
          /\ mail_meta' = after
          /\ conn' = IF r = data_okay THEN "data" ELSE "read"
       \/ /\ mail_meta' = before
          /\ conn' = "failed"
          /\ UNCHANGED replies
    /\ UNCHANGED <<eof, handled>>
    /\ queue_unchanged
    /\ UNCHANGED client

\* A push at the front of the list.
push_front(to, x) == <<x>> \o to

\* mail_meta_unw.to.push(to)
push(to, x) == Append(to, x)

\* send_reply(writer, cfg.welcome_banner())
welcome ==
    /\ conn = "start"
    /\ \/ /\ replies' = writer_send(replies, welcome_banner)
          /\ conn' = "read"
       \/ /\ conn' = "failed"
          /\ UNCHANGED replies
    /\ UNCHANGED <<mail_meta, data_meta, line, nlines, eof, called, decided, handled, txn>>
    /\ queue_unchanged
    /\ UNCHANGED client

\* An is_some that never sees the open transaction.
is_some_never(mm) == FALSE

\* mail_meta.is_some()
is_some(mm) == mm # <<>>

\* MailMetadata { user: new_mail(), from, to: Vec::with_capacity(4) }
new_mail(mm, from) == <<ServerMailMetadata(from, <<>>)>>

\* handle_line, Command::Mail
Mail ==
    /\ CanRead
    /\ \E l \in Lines, d \in Decisions :
          LET c == Command_parse(l)
          IN  /\ c.ok /\ c.cmd = "Mail"
              /\ IF is_some(mail_meta)
                 THEN /\ send_reply(l, already_in_mail, mail_meta, mail_meta, {}, d)
                      /\ UNCHANGED txn
                 ELSE IF d.accept
                 THEN /\ send_reply(l, mail_okay, mail_meta, new_mail(mail_meta, c.arg),
                                    {"new_mail", "filter_from"}, d)
                      /\ txn' = IF conn' = "read"
                                THEN ServerMailMetadata(c.arg, <<>>) ELSE txn
                 ELSE /\ send_reply(l, refusal_reply(d.r), mail_meta, mail_meta,
                                    {"new_mail", "filter_from"}, d)
                      /\ UNCHANGED txn
    /\ UNCHANGED data_meta

\* What one match arm of handle_line does: the reply, mail_meta at the send
\* and after the arm, and the callbacks called.
Arm(r, before, after, calls) ==
    [reply |-> r, before |-> before, after |-> after, calls |-> calls]

\* A Command::Rcpt arm that asks filter_to without looking for a transaction.
rcpt_unchecked(mm, to, d) ==
    LET m == IF mm = <<>> THEN NoTxn ELSE mm[1]
        pushed == <<[m EXCEPT !.to = push(@, to)]>>
    IN  IF d.accept THEN Arm(rcpt_okay, pushed, pushed, {"filter_to"})
        ELSE Arm(refusal_reply(d.r), mm, mm, {"filter_to"})

\* The Command::Rcpt arm of handle_line, filter_to having decided d.
rcpt(mm, to, d) ==
    IF mm = <<>> THEN Arm(rcpt_before_mail, mm, mm, {})
    ELSE IF d.accept
    THEN LET pushed == <<[mm[1] EXCEPT !.to = push(@, to)]>>
         IN  Arm(rcpt_okay, pushed, pushed, {"filter_to"})
    ELSE Arm(refusal_reply(d.r), mm, mm, {"filter_to"})

\* handle_line, Command::Rcpt
Rcpt ==
    /\ CanRead
    /\ \E l \in Lines, d \in Decisions :
          LET c == Command_parse(l)
              a == rcpt(mail_meta, c.arg[1], d)
          IN  /\ c.ok /\ c.cmd = "Rcpt"
              /\ send_reply(l, a.reply, a.before, a.after, a.calls, d)
              /\ txn' = IF conn' = "read" /\ a.reply = rcpt_okay
                        THEN [txn EXCEPT !.to = Append(@, c.arg[1])] ELSE txn
    /\ UNCHANGED data_meta

\* *mail_meta = Some(mail_meta_unw) after filter_data's Reject
data_rejected(mm) == mm

\* A DATA refused for want of a recipient that forgets the transaction it took.
restore_forgotten(mm) == <<>>

\* *mail_meta = Some(mail_meta_unw) after data_before_rcpt
restore(mm) == mm

\* handle_line, Command::Data up to the 354: mail_meta.take(), the two 503,
\* filter_data and its Reject
Data ==
    /\ CanRead
    /\ \E l \in Lines, d \in Decisions :
          LET c == Command_parse(l)
          IN  /\ c.ok /\ c.cmd = "Data"
              /\ IF mail_meta = <<>>
                 THEN /\ send_reply(l, data_before_mail, <<>>, <<>>, {}, d)
                      /\ UNCHANGED data_meta
                 ELSE IF mail_meta[1].to = <<>>
                 THEN /\ send_reply(l, data_before_rcpt, <<>>, restore(mail_meta), {}, d)
                      /\ UNCHANGED data_meta
                 ELSE IF d.accept
                 THEN /\ send_reply(l, data_okay, <<>>, <<>>, {"filter_data"}, d)
                      /\ data_meta' = mail_meta
                 ELSE /\ send_reply(l, refusal_reply(d.r), <<>>, data_rejected(mail_meta),
                                    {"filter_data"}, d)
                      /\ UNCHANGED data_meta
    /\ UNCHANGED txn

\* handle_line, Command::Data after the 354: handle_mail reads the payload
\* through the DataStream, up to the terminator or to the end of the input,
\* and returns with the stream completed or not; then
\* assert!(data_stream.was_completed()), and handle_mail's Decision is the
\* final reply.  mail_meta stays None.
handle_mail ==
    /\ conn = "data"
    /\ \E d \in Decisions, end \in {"Finished", "EndOfInput"}, was_completed \in BOOLEAN :
          /\ handled' = Append(handled, data_meta[1])
          /\ eof' = (end = "EndOfInput")
          /\ called' = {"handle_mail"}
          /\ decided' = <<d>>
          /\ IF was_completed
             THEN \/ /\ replies' = writer_send(replies,
                             [(IF d.accept THEN mail_accepted ELSE refusal_reply(d.r))
                                  EXCEPT !.n = nlines])
                     /\ conn' = "read"
                  \/ /\ conn' = "failed"
                     /\ UNCHANGED replies
             ELSE /\ conn' = "panicked"
                  /\ UNCHANGED replies
    /\ data_meta' = <<>>
    /\ UNCHANGED <<mail_meta, line, nlines, txn>>
    /\ queue_unchanged
    /\ UNCHANGED client

\* handle_line, Ok(_): every other command
Unimplemented ==
    /\ CanRead
    /\ \E l \in Lines :
          LET c == Command_parse(l)
          IN  /\ c.ok /\ c.cmd \notin {"Mail", "Rcpt", "Data"}
              /\ send_reply(l, command_unimplemented, mail_meta, mail_meta, {}, Accept)
    /\ UNCHANGED <<data_meta, txn>>

\* handle_line, Err(_)
Unrecognized ==
    /\ CanRead
    /\ \E l \in Lines :
          /\ ~Command_parse(l).ok
          /\ send_reply(l, command_unrecognized, mail_meta, mail_meta, {}, Accept)
    /\ UNCHANGED <<data_meta, txn>>

\* next_crlf_line returns None: interact returns Ok(()).
end_of_input ==
    /\ conn = "read"
    /\ conn' = "closed"
    /\ eof' = TRUE
    /\ UNCHANGED <<mail_meta, data_meta, line, nlines, replies, called, decided, handled, txn>>
    /\ queue_unchanged
    /\ UNCHANGED client

session_init ==
    /\ conn = "start"
    /\ mail_meta = <<>>
    /\ data_meta = <<>>
    /\ line = NoLine
    /\ nlines = 0
    /\ eof = FALSE
    /\ replies = <<>>
    /\ called = {}
    /\ decided = <<>>
    /\ handled = <<>>
    /\ txn = NoTxn

interact ==
    \/ welcome
    \/ Mail
    \/ Rcpt
    \/ Data
    \/ handle_mail
    \/ Unimplemented
    \/ Unrecognized
    \/ end_of_input

\* --------------------------------------------------------- the SMTP client
\* The names the resolver is asked for: the destination host and the
\* exchanges of its MX records; an MX record is <<preference, exchange>>.
\* Exchange a is listed under both preference values.
MxRecords == {<<10, "a">>, <<10, "b">>, <<20, "a">>}
MxLookups == {l \in SUBSET MxRecords : Cardinality(l) <= MaxMx}

SMTP_PORT == 25

\* An address is <<name, i>>: the i-th address lookup_ip returned for name.
IpAddr(name, i) == <<name, i>>
NoIp == IpAddr("none", 0)

\* Reply<String>: the code and Option<EnhancedReplyCode> as its subject.
Reply(code, ecode) == [code |-> code, ecode |-> ecode]
NoReply == Reply(0, <<>>)
Subjects == {"Mailbox", "MailSystem", "Network"}
Replies == {Reply(250, <<>>), Reply(250, <<"Mailbox">>), Reply(354, <<>>)}
               \cup {Reply(c, e) : c \in {450, 550},
                                   e \in {<<>>} \cup {<<s>> : s \in Subjects}}

\* ReplyCode::kind(): the class of the code, by its first digit.
ReplyCode_kind(code) ==
    CASE code \div 100 = 2 -> "PositiveCompletion"
      [] code \div 100 = 3 -> "PositiveIntermediate"
      [] code \div 100 = 4 -> "TransientNegative"
      [] code \div 100 = 5 -> "PermanentNegative"
      [] OTHER -> "none"

\* TransportError: the variant, the reply of the variants that carry one and
\* the name or address of DnsIp and Connecting.
TransportError(variant, reply, at) == [variant |-> variant, reply |-> reply, at |-> at]
NoError == TransportError("none", NoReply, NoIp)
Ok == [ok |-> TRUE, err |-> NoError]
Err(e) == [ok |-> FALSE, err |-> e]

\* A severity that follows the class of the reply alone.
severity_unexpected_permanent(e) ==
    CASE e.variant \in {"TransientMail", "TransientMailbox", "TransientMailSystem"} ->
            "MailTransient"
      [] e.variant \in {"PermanentMail", "PermanentMailbox", "PermanentMailSystem",
                        "UnexpectedReplyCode"} -> "MailPermanent"
      [] OTHER -> "NetworkTransient"

\* TransportError::severity
severity(e) ==
    CASE e.variant = "DnsMx" -> "NetworkTransient"
      [] e.variant = "HostToTrustDns" -> "NetworkTransient"
      [] e.variant = "DnsIp" -> "NetworkTransient"
      [] e.variant = "Connecting" -> "NetworkTransient"
      [] e.variant = "ReceivingReplyBytes" -> "NetworkTransient"
      [] e.variant = "TimedOutWaitingForReply" -> "NetworkTransient"
      [] e.variant = "ConnectionAborted" -> "NetworkTransient"
      [] e.variant = "TooLongReply" -> "NetworkTransient"
      [] e.variant = "SyntaxError" -> "MailSystemTransient"
      [] e.variant = "TimedOutSendingCommand" -> "NetworkTransient"
      [] e.variant = "SendingCommand" -> "NetworkTransient"
      [] e.variant = "TransientMail" -> "MailTransient"
      [] e.variant = "TransientMailbox" -> "MailboxTransient"
      [] e.variant = "TransientMailSystem" -> "MailSystemTransient"
      [] e.variant = "PermanentMail" -> "MailPermanent"
      [] e.variant = "PermanentMailbox" -> "MailboxPermanent"
      [] e.variant = "PermanentMailSystem" -> "MailSystemPermanent"
      [] e.variant = "UnexpectedReplyCode" -> "NetworkTransient"

\* A verify_reply that looks at the class of the reply only.
verify_reply_no_subject(r, expected) ==
    CASE ReplyCode_kind(r.code) = expected -> Ok
      [] ReplyCode_kind(r.code) = "TransientNegative" -> Err(TransportError("TransientMail", r, NoIp))
      [] ReplyCode_kind(r.code) = "PermanentNegative" -> Err(TransportError("PermanentMail", r, NoIp))
      [] OTHER -> Err(TransportError("UnexpectedReplyCode", r, NoIp))

\* verify_reply: the match on (r.code.kind(), the subject of r.ecode), arm by arm
verify_reply(r, expected) ==
    LET k == ReplyCode_kind(r.code)
        s == r.ecode
    IN  CASE k = expected -> Ok
          [] k # expected /\ k = "TransientNegative" /\ s = <<"Mailbox">> ->
                Err(TransportError("TransientMailbox", r, NoIp))
          [] k # expected /\ k = "PermanentNegative" /\ s = <<"Mailbox">> ->
                Err(TransportError("PermanentMailbox", r, NoIp))
          [] k # expected /\ k = "TransientNegative" /\ s = <<"MailSystem">> ->
                Err(TransportError("TransientMailSystem", r, NoIp))
          [] k # expected /\ k = "PermanentNegative" /\ s = <<"MailSystem">> ->
                Err(TransportError("PermanentMailSystem", r, NoIp))
          [] k # expected /\ k = "TransientNegative" /\ s \notin {<<"Mailbox">>, <<"MailSystem">>} ->
                Err(TransportError("TransientMail", r, NoIp))
          [] k # expected /\ k = "PermanentNegative" /\ s \notin {<<"Mailbox">>, <<"MailSystem">>} ->
                Err(TransportError("PermanentMail", r, NoIp))
          [] OTHER -> Err(TransportError("UnexpectedReplyCode", r, NoIp))

\* What read_reply gives: a reply, or one of its errors.
ReadErrors == {"ReceivingReplyBytes", "TimedOutWaitingForReply", "ConnectionAborted",
               "TooLongReply", "SyntaxError"}
Read(ok, reply, variant) == [ok |-> ok, reply |-> reply, variant |-> variant]
ReadOutcomes == {Read(TRUE, r, "none") : r \in Replies}
                    \cup {Read(FALSE, NoReply, v) : v \in ReadErrors}

\* read_reply followed by verify_reply(reply, PositiveCompletion)?
read_verified(o) ==
    IF o.ok THEN verify_reply(o.reply, "PositiveCompletion")
    ELSE Err(TransportError(o.variant, NoReply, NoIp))

\* What send_command gives.
SendOutcomes == {"Ok", "TimedOutSendingCommand", "SendingCommand"}

\* What the peer at one address does: the TCP connect, the banner, the EHLO
\* write and the EHLO reply; the steps after the first error do not happen.
Peer(tcp, banner, send, ehlo) == [tcp |-> tcp, banner |-> banner, send |-> send, ehlo |-> ehlo]
NoRead == Read(FALSE, NoReply, "none")
Peers ==
    {Peer(FALSE, NoRead, "none", NoRead)}
        \cup {Peer(TRUE, b, "none", NoRead) : b \in {o \in ReadOutcomes : ~read_verified(o).ok}}
        \cup {Peer(TRUE, b, s, NoRead) :
                b \in {o \in ReadOutcomes : read_verified(o).ok}, s \in SendOutcomes \ {"Ok"}}
        \cup {Peer(TRUE, b, "Ok", e) :
                b \in {o \in ReadOutcomes : read_verified(o).ok}, e \in ReadOutcomes}

\* connect_to_stream: the banner, EHLO and its reply, each with its `?`.
connect_to_stream(p) ==
    IF ~read_verified(p.banner).ok THEN read_verified(p.banner)
    ELSE IF p.send # "Ok" THEN Err(TransportError(p.send, NoReply, NoIp))
    ELSE read_verified(p.ehlo)

\* connect_to_ip: TcpStream::connect((ip, port)), then connect_to_stream.
connect_to_ip(ip, p) ==
    IF ~p.tcp THEN Err(TransportError("Connecting", NoReply, ip))
    ELSE connect_to_stream(p)

\* Result<Sender, TransportError>; the Sender with (history) the address it
\* is connected to and the replies its peer gave to the banner read and EHLO.
NoResult == [kind |-> "none", err |-> NoError, ip |-> NoIp, banner |-> NoReply,
             ehlo |-> NoReply]
Sender(ip, p) == [kind |-> "Ok", err |-> NoError, ip |-> ip, banner |-> p.banner.reply,
                  ehlo |-> p.ehlo.reply]
Failed(e) == [kind |-> "Err", err |-> e, ip |-> NoIp, banner |-> NoReply, ehlo |-> NoReply]

\* One entry of the history: the MX record (<<0, name>> outside the MX loop),
\* the address (NoIp for a lookup_ip that failed), the port and whether
\* connect_to_ip returned Ok.
Attempt(mx, ip, port, ok) == [mx |-> mx, ip |-> ip, port |-> port, ok |-> ok]

\* One resolver query: "MX" (mx_lookup) or "IP" (lookup_ip), the name, and the
\* number of records of the answer, -1 for an error.
Query(q, name, answer) == [q |-> q, name |-> name, answer |-> answer]

Logged(a, tcp, r) ==
    /\ attempts' = Append(attempts, a)
    /\ first_failed' = IF first_failed = <<>> /\ ~r.ok THEN <<r.err>> ELSE first_failed
    /\ first_tcp' = IF first_tcp = <<>> /\ tcp THEN <<Len(attempts) + 1>> ELSE first_tcp

\* An `or` that keeps the latest error.
or_latest(first, e) == <<e>>

\* first_error.or(Some(e))
or(first, e) == IF first = <<>> THEN <<e>> ELSE first

\* A map iterated from its greatest key.
first_key_greatest(records) == CHOOSE k \in {r[1] : r \in records} : \A r \in records : r[1] <= k

\* The first key of the BTreeMap: the lowest preference.
first_key(records) == CHOOSE k \in {r[1] : r \in records} : \A r \in records : k <= r[1]

\* mxes.shuffle(&mut rand::thread_rng()): any order of the records of a level
shuffle(level) ==
    {s \in [1..Cardinality(level) -> level] : \A r \in level : \E i \in DOMAIN s : s[i] = r}

\* connect_to_mx has got Err(e) from connect_to_host(mx) and goes on with its
\* loops: the next record, the next level, or Err(first_error.unwrap()).
mx_failed(e) ==
    LET fe == or(first_error, e)
    IN  /\ mxes' = Tail(mxes)
        /\ IF Tail(mxes) = <<>> /\ mx_records = {}
           THEN /\ cpc' = "done"
                /\ result' = Failed(fe[1])
                /\ first_error' = fe
           ELSE /\ cpc' = "connect_to_mx"
                /\ first_error' = fe
                /\ UNCHANGED result
        /\ UNCHANGED mx_records

\* connect_to_host returns Err(e) to its caller.
host_failed(e) ==
    /\ lookup' = <<>>
    /\ host_error' = <<>>
    /\ IF via_mx' THEN mx_failed(e)
       ELSE /\ cpc' = "done"
            /\ result' = Failed(e)
            /\ UNCHANGED <<mx_records, mxes, first_error>>

\* A map that never counts as empty.
is_empty_never(records) == FALSE

\* mx_records.is_empty()
is_empty(records) == records = {}

\* Client::connect: an IP literal goes to connect_to_ip; a domain goes to
\* connect_to_mx, whose mx_lookup fails, gives records, or gives none, and
\* then host.into_name() fails or connect_to_host(host) is called.
connect ==
    /\ cpc = "idle"
    /\ \/ \E p \in Peers :
             LET ip == IpAddr("literal", 1)
                 r == connect_to_ip(ip, p)
             IN  /\ Logged(Attempt(<<0, "literal">>, ip, SMTP_PORT, r.ok), p.tcp, r)
                 /\ result' = IF r.ok THEN Sender(ip, p) ELSE Failed(r.err)
                 /\ cpc' = "done"
                 /\ dest' = "ip"
                 /\ UNCHANGED <<mx_records, dns>>
       \/ \E variant \in {"DnsMx", "HostToTrustDns"} :
             /\ result' = Failed(TransportError(variant, NoReply, IpAddr("host", 0)))
             /\ cpc' = "done"
             /\ dest' = "domain"
             /\ dns' = <<Query("MX", "host", IF variant = "DnsMx" THEN -1 ELSE 0)>>
             /\ UNCHANGED <<mx_records, attempts, first_failed, first_tcp>>
       \/ \E l \in MxLookups :
             /\ mx_records' = l
             /\ cpc' = IF is_empty(l) THEN "fallback" ELSE "connect_to_mx"
             /\ dest' = "domain"
             /\ dns' = <<Query("MX", "host", Cardinality(l))>>
             /\ UNCHANGED <<result, attempts, first_failed, first_tcp>>
    /\ UNCHANGED <<mxes, via_mx, lookup, first_error, host_error, failure, effect>>
    /\ queue_unchanged
    /\ UNCHANGED <<session, reader>>

\* connect_to_mx, the head of its outer loop: the next preference level,
\* shuffled.
next_level ==
    /\ cpc = "connect_to_mx"
    /\ mxes = <<>>
    /\ mx_records # {}
    /\ LET level == {r \in mx_records : r[1] = first_key(mx_records)}
       IN  /\ mxes' \in shuffle(level)
           /\ mx_records' = mx_records \ level
    /\ UNCHANGED <<cpc, via_mx, lookup, first_error, host_error, result, failure, effect,
                   attempts, first_failed, first_tcp, dest, dns>>
    /\ queue_unchanged
    /\ UNCHANGED <<session, reader>>

\* connect_to_host, lookup_ip(name): an error, or the addresses; with no
\* address the loop does not run and first_error.unwrap() panics.
connect_to_host ==
    /\ \/ cpc = "connect_to_mx" /\ mxes # <<>>
       \/ cpc = "fallback"
    /\ via_mx' = (cpc = "connect_to_mx")
    /\ LET mx == IF via_mx' THEN Head(mxes) ELSE <<0, "host">>
       IN  \/ LET e == TransportError("DnsIp", NoReply, IpAddr(mx[2], 0))
              IN  /\ Logged(Attempt(mx, NoIp, SMTP_PORT, FALSE), FALSE, Err(e))
                  /\ dns' = Append(dns, Query("IP", mx[2], -1))
                  /\ host_failed(e)
           \/ /\ cpc' = "panicked"
              /\ dns' = Append(dns, Query("IP", mx[2], 0))
              /\ UNCHANGED <<mx_records, mxes, lookup, first_error, host_error, result,
                             attempts, first_failed, first_tcp>>
           \/ \E n \in 1..MaxIps :
                 /\ lookup' = [i \in 1..n |-> IpAddr(mx[2], i)]
                 /\ host_error' = <<>>
                 /\ cpc' = "connect_to_host"
                 /\ dns' = Append(dns, Query("IP", mx[2], n))
                 /\ UNCHANGED <<mx_records, mxes, first_error, result, attempts, first_failed,
                                first_tcp>>
    /\ UNCHANGED <<failure, effect, dest>>
    /\ queue_unchanged
    /\ UNCHANGED <<session, reader>>

\* connect_to_host, one turn of its loop: connect_to_ip(ip, port); Ok is
\* returned, an error is kept if it is the first and the loop goes on; after
\* the last address Err(first_error.unwrap()).
try_ip ==
    /\ cpc = "connect_to_host"
    /\ lookup # <<>>
    /\ \E p \in Peers :
          LET ip == Head(lookup)
              mx == IF via_mx THEN Head(mxes) ELSE <<0, "host">>
              r == connect_to_ip(ip, p)
              he == or(host_error, r.err)
          IN  /\ Logged(Attempt(mx, ip, SMTP_PORT, r.ok), p.tcp, r)
              /\ UNCHANGED via_mx
              /\ IF r.ok
                 THEN /\ result' = Sender(ip, p)
                      /\ cpc' = "done"
                      /\ UNCHANGED <<mx_records, mxes, lookup, first_error, host_error>>
                 ELSE IF Tail(lookup) = <<>>
                 THEN host_failed(he[1])
                 ELSE /\ lookup' = Tail(lookup)
                      /\ host_error' = he
                      /\ UNCHANGED <<cpc, mx_records, mxes, first_error, result>>
    /\ UNCHANGED <<failure, effect, dest, dns>>
    /\ queue_unchanged
    /\ UNCHANGED <<session, reader>>

\* smtp_queue::TransportFailure of a TransportError, by its severity
transport_error_client_to_queue(e) ==
    CASE severity(e) = "NetworkTransient" -> "NetworkTransient"
      [] severity(e) = "MailTransient" -> "MailTransient"
      [] severity(e) = "MailboxTransient" -> "MailboxTransient"
      [] severity(e) = "MailSystemTransient" -> "MailSystemTransient"
      [] severity(e) = "MailPermanent" -> "MailPermanent"
      [] severity(e) = "MailboxPermanent" -> "MailboxPermanent"
      [] severity(e) = "MailSystemPermanent" -> "MailSystemPermanent"

Transient == {"NetworkTransient", "MailTransient", "MailboxTransient", "MailSystemTransient"}
Permanent == {"MailPermanent", "MailboxPermanent", "MailSystemPermanent"}

\* QueueConfig::next_interval: Option<Duration>, always None
next_interval(s) == <<>>

\* The sender of the queue engine after a failed attempt: a permanent failure
\* drops the destination to cleanup/; a transient one asks next_interval, and
\* None gives up and drops, Some(d) is send_cancel and reschedule.
sender_failed(f, interval) ==
    IF f \in Permanent THEN "drop"
    ELSE IF interval = <<>> THEN "drop"
    ELSE "reschedule"

\* Transport::connect has returned Err: map_err(transport_error_client_to_queue)
\* and the queue's reaction.
connect_failed ==
    /\ cpc = "done"
    /\ result.kind = "Err"
    /\ effect = "none"
    /\ failure' = transport_error_client_to_queue(result.err)
    /\ \E s \in NewSchedules \cup {InitialSchedule} :
          effect' = sender_failed(failure', next_interval(s))
    /\ UNCHANGED <<cpc, mx_records, mxes, via_mx, lookup, first_error, host_error, result,
                   attempts, first_failed, first_tcp, dest, dns>>
    /\ queue_unchanged
    /\ UNCHANGED <<session, reader>>

client_init ==
    /\ cpc = "idle"
    /\ mx_records = {}
    /\ mxes = <<>>
    /\ via_mx = FALSE
    /\ lookup = <<>>
    /\ first_error = <<>>
    /\ host_error = <<>>
    /\ result = NoResult
    /\ failure = "none"
    /\ effect = "none"
    /\ attempts = <<>>
    /\ first_failed = <<>>
    /\ first_tcp = <<>>
    /\ dest = "none"
    /\ dns = <<>>

Client ==
    \/ connect
    \/ next_level
    \/ connect_to_host
    \/ try_ip
    \/ connect_failed

\* ------------------------------------------------------------- read_reply
\* RDBUF_SIZE is 16 * 1024 and MINIMUM_FREE_BUFSPACE is 128 in the code; the
\* model keeps their roles and their order (0 < MINIMUM_FREE_BUFSPACE <
\* RDBUF_SIZE) at a size whose buffers can be enumerated.
RDBUF_SIZE == 6
MINIMUM_FREE_BUFSPACE == 2
\* connect_to_stream calls read_reply for the banner and for the EHLO reply.
MaxCalls == 2

\* A byte is part of a reply ("x"), ends a reply ("n": the CRLF of its last
\* line) or cannot occur in a reply ("!").
Bytes == {"x", "n", "!"}
BytesUpTo(n) == UNION {[1..k -> Bytes] : k \in 0..n}

\* nom::Needed: 0 is Unknown, s > 0 is Size(s).
Needs == {0, 1, MINIMUM_FREE_BUFSPACE + 1}

NoReplyRead == [kind |-> "none", reply |-> <<>>, variant |-> "none"]
ReplyRead(reply) == [kind |-> "Ok", reply |-> reply, variant |-> "none"]
ReadFailed(variant) == [kind |-> "Err", reply |-> <<>>, variant |-> variant]

\* Reply::parse on a slice: Incomplete while no reply has ended, an error
\* at a byte no reply can hold, else the first reply and the bytes after it.
Reply_parse(b) ==
    LET ends == {i \in 1..Len(b) : b[i] = "n"}
        bad == {i \in 1..Len(b) : b[i] = "!"}
        first(S) == CHOOSE i \in S : \A j \in S : i <= j
    IN  IF bad # {} /\ (ends = {} \/ first(bad) < first(ends))
        THEN [kind |-> "Error", reply |-> <<>>, rem |-> <<>>]
        ELSE IF ends = {}
        THEN [kind |-> "Incomplete", reply |-> <<>>, rem |-> <<>>]
        ELSE [kind |-> "Ok", reply |-> SubSeq(b, 1, first(ends)),
              rem |-> SubSeq(b, first(ends) + 1, Len(b))]

\* read_for_reply(io.read(buf), ..): an I/O error, the timeout, or the bytes
\* read into a buffer of `space` bytes (none at the end of the stream).
read_for_reply(space) ==
    {ReadFailed(v) : v \in {"ReceivingReplyBytes", "TimedOutWaitingForReply"}}
        \cup {ReplyRead(b) : b \in BytesUpTo(space)}

\* io.read into &mut buf[at..]
read_into(buf, at, b) ==
    SubSeq(buf, 1, at) \o b \o SubSeq(buf, at + Len(b) + 1, Len(buf))

\* rdbuf.copy_within(unhandled.clone(), 0)
copy_within(buf, u) ==
    [i \in 1..Len(buf) |-> IF i <= u.end - u.start THEN buf[u.start + i] ELSE buf[i]]

\* missing: MINIMUM_FREE_BUFSPACE for Needed::Unknown, else
\* cmp::max(MINIMUM_FREE_BUFSPACE, s)
missing(n) ==
    IF n = 0 \/ n <= MINIMUM_FREE_BUFSPACE THEN MINIMUM_FREE_BUFSPACE ELSE n

\* A buffer compacted whatever its free space.
compacts_always(u, n, len) == u.start # 0

\* `unhandled.start != 0` and `missing > rdbuf.len() - unhandled.end`
compacts(u, n, len) == u.start # 0 /\ missing(n) > len - u.end

\* A reply given up one byte before the buffer is full.
too_long_early(u, len) == u.end >= len - 1

\* `unhandled.end == rdbuf.len()`
too_long(u, len) == u.end = len

unparsed == SubSeq(rdbuf, unhandled.start + 1, unhandled.end)

\* read_reply up to its loop: an empty `unhandled` is refilled from the
\* start of the buffer.
read_reply ==
    /\ rpc = "idle"
    /\ nreplies < MaxCalls
    /\ nreplies' = nreplies + 1
    /\ IF unhandled.start >= unhandled.end
       THEN \E r \in read_for_reply(Len(rdbuf)) :
               IF r.kind = "Err"
               THEN /\ rr' = r
                    /\ rpc' = "closed"
                    /\ UNCHANGED <<rdbuf, unhandled, pending>>
               ELSE /\ rdbuf' = read_into(rdbuf, 0, r.reply)
                    /\ unhandled' = [start |-> 0, end |-> Len(r.reply)]
                    /\ pending' = r.reply
                    /\ IF r.reply = <<>>
                       THEN rr' = ReadFailed("ConnectionAborted") /\ rpc' = "closed"
                       ELSE rr' = NoReplyRead /\ rpc' = "loop"
       ELSE /\ rr' = NoReplyRead
            /\ rpc' = "loop"
            /\ UNCHANGED <<rdbuf, unhandled, pending>>
    /\ UNCHANGED <<needed, moved, connecting>>
    /\ queue_unchanged
    /\ UNCHANGED session

\* One turn of read_reply's loop: parse, and on Incomplete compact, give up
\* or read more.
read_reply_loop ==
    /\ rpc = "loop"
    /\ LET p == Reply_parse(unparsed)
       IN  CASE p.kind = "Incomplete" ->
                  \E n \in Needs :
                     LET copy == compacts(unhandled, n, Len(rdbuf))
                         buf == IF copy THEN copy_within(rdbuf, unhandled) ELSE rdbuf
                         u == IF copy
                              THEN [start |-> 0, end |-> unhandled.end - unhandled.start]
                              ELSE unhandled
                     IN  /\ needed' = n
                         /\ moved' = IF copy THEN moved + 1 ELSE moved
                         /\ IF too_long(u, Len(buf))
                            THEN /\ rr' = ReadFailed("TooLongReply")
                                 /\ rpc' = "closed"
                                 /\ rdbuf' = buf
                                 /\ unhandled' = u
                                 /\ UNCHANGED pending
                            ELSE \E r \in read_for_reply(Len(buf) - u.end) :
                                    IF r.kind = "Err"
                                    THEN /\ rr' = r
                                         /\ rpc' = "closed"
                                         /\ rdbuf' = buf
                                         /\ unhandled' = u
                                         /\ UNCHANGED pending
                                    ELSE /\ rdbuf' = read_into(buf, u.end, r.reply)
                                         /\ pending' = pending \o r.reply
                                         /\ IF r.reply = <<>>
                                            THEN /\ rr' = ReadFailed("ConnectionAborted")
                                                 /\ rpc' = "closed"
                                                 /\ unhandled' = u
                                            ELSE /\ unhandled' =
                                                      [u EXCEPT !.end = @ + Len(r.reply)]
                                                 /\ UNCHANGED <<rr, rpc>>
            [] p.kind = "Error" ->
                  /\ rr' = ReadFailed("SyntaxError")
                  /\ rpc' = "closed"
                  /\ UNCHANGED <<rdbuf, unhandled, needed, pending, moved>>
            [] p.kind = "Ok" ->
                  /\ unhandled' = [unhandled EXCEPT !.start = unhandled.end - Len(p.rem)]
                  /\ rr' = ReplyRead(p.reply)
                  /\ rpc' = "idle"
                  /\ pending' = SubSeq(pending, Len(p.reply) + 1, Len(pending))
                  /\ UNCHANGED <<rdbuf, needed, moved>>
    /\ UNCHANGED <<nreplies, connecting>>
    /\ queue_unchanged
    /\ UNCHANGED session

\* `let rdbuf = &mut [0; RDBUF_SIZE]; let mut unhandled = 0..0;`
reader_init ==
    /\ rdbuf = [i \in 1..RDBUF_SIZE |-> "0"]
    /\ unhandled = [start |-> 0, end |-> 0]
    /\ rpc = "idle"
    /\ rr = NoReplyRead
    /\ nreplies = 0
    /\ needed = 0
    /\ pending = <<>>
    /\ moved = 0

ReadReply ==
    \/ read_reply
    \/ read_reply_loop

\* ------------------------------------------------------------------ crash
\* The process is killed: every task and handle is lost, the spool stays.
Crash ==
    /\ crashes < MaxCrashes
    /\ crashes' = crashes + 1
    /\ enq' = EnqIdle(enq.next)
    /\ returned' = {}
    /\ pc' = [w \in Workers |-> "idle"]
    /\ mail' = [w \in Workers |-> NoMail]
    /\ ret' = [w \in Workers |-> NoRet]
    /\ tmp_sched_file' = [w \in Workers |-> NoTmp]
    /\ UNCHANGED <<disk, ops, faults, ghost, hmail, session, client>>

\* ---------------------------------------------------------- specification
Init ==
    /\ mail_dir = [c \in Mails |-> FALSE]
    /\ contents = [c \in Mails |-> "absent"]
    /\ dest_dir = [d \in Dests |-> FALSE]
    /\ metadata = [d \in Dests |-> NoFile]
    /\ schedule = [d \in Dests |-> NoFile]
    /\ tmp = [d \in Dests |-> <<>>]
    /\ links = [q \in QueueDirs |-> {}]
    /\ enq = EnqIdle(0)
    /\ returned = {}
    /\ pc = [w \in Workers |-> "idle"]
    /\ mail = [w \in Workers |-> NoMail]
    /\ ret = [w \in Workers |-> NoRet]
    /\ tmp_sched_file = [w \in Workers |-> NoTmp]
    /\ ops = 0
    /\ faults = 0
    /\ crashes = 0
    /\ published = {}
    /\ removed = {}
    /\ last_written = [d \in Dests |-> <<>>]
    /\ hmail = [c \in Mails |-> NoHandleMail]
    /\ session_init
    /\ client_init
    /\ reader_init

Session ==
    \/ enqueue_create_dir
    \/ enqueue_new_file
    \/ handle_mail_reject
    \/ commit_flush
    \/ md_create_dir
    \/ md_schedule
    \/ md_metadata
    \/ md_symlink
    \/ cd_metadata
    \/ cd_schedule
    \/ cd_rmdir
    \/ cc_contents
    \/ cc_dir
    \/ commit_returned_err

Worker(w) ==
    \/ take(w)
    \/ list_queue(w)
    \/ find_inflight(w)
    \/ find_pending_cleanup(w)
    \/ reschedule(w)
    \/ rs_tmp(w)
    \/ rs_rename(w)
    \/ send_start(w)
    \/ send_done(w)
    \/ send_cancel(w)
    \/ drop(w)
    \/ cleanup(w)
    \/ cl_metadata(w)
    \/ cl_schedule(w)
    \/ cl_rmdir(w)
    \/ cl_list(w)
    \/ cl_contents(w)
    \/ cl_datadir(w)
    \/ cl_link(w)

Next ==
    \/ Session
    \/ \E w \in Workers : Worker(w)
    \/ Crash

Spec == Init /\ [][Next]_vars

\* One SMTP session on its own, the spool left alone.
SpecInteract == Init /\ [][interact]_vars

\* One connect of the client and the queue's reaction to its failure.
SpecClient == Init /\ [][Client]_vars

\* The replies read on one connection.
SpecReadReply == Init /\ [][ReadReply]_vars

\* ----------------------------------------------------------------- claims
LinkDirs(d) == {q \in QueueDirs : d \in links[q]}
MsgDests(c) == {d \in Dests : d[1] = c}
Readable(f) == f.exists /\ f.data # <<>>

\* C1: a destination that commit has published and cleanup has not yet
\* removed is a link in exactly one of queue/, inflight/ and cleanup/, and no
\* destination is ever a link in two of them.
C1_ExactlyOneQueue ==
    /\ \A d \in published \ removed : Cardinality(LinkDirs(d)) = 1
    /\ \A d \in Dests : Cardinality(LinkDirs(d)) <= 1

\* C1 witness: one worker has moved a published destination on to cleanup/
\* while another worker's move of the same destination lost and got None.
C1_Witness ==
    \E w, v \in Workers :
        /\ ret[w].op = "send_done" /\ ret[w].res = "Some"
        /\ ret[w].id \in links["cleanup"] /\ ret[w].id \in published
        /\ ret[v].res = "None" /\ ret[v].id = ret[w].id

\* C2: at most one worker holds an Inflight handle that send_start returned
\* for a given destination.
C2_OneInflightHandle ==
    \A d \in Dests :
        Cardinality({w \in Workers : /\ mail[w].type = "Inflight"
                                     /\ mail[w].via = "send_start"
                                     /\ mail[w].id = d}) <= 1

\* C3: when commit returns an error from the creation of its k-th
\* destination, k - 1 >= 1 destinations having been published, no symlink of
\* the message is in queue/ and neither the contents file nor the content
\* directory is left under data/.
C3_CommitAllOrNothing ==
    (enq.pc = "failed" /\ enq.k >= 2) =>
        /\ \A d \in MsgDests(enq.mail) : d \notin links["queue"]
        /\ contents[enq.mail] = "absent"
        /\ ~mail_dir[enq.mail]

\* C4: without any I/O fault or crash, every destination linked in queue/
\* or inflight/ whose own metadata and schedule are in place (no cleanup has
\* touched it) has the contents file of its message.
C4_ContentsWhileLinked ==
    (faults = 0 /\ crashes = 0) =>
        \A d \in links["queue"] \cup links["inflight"] :
            (Readable(metadata[d]) /\ Readable(schedule[d])) => contents[d[1]] # "absent"

\* C5: without any I/O fault, a content id that no enqueue or commit is
\* working on and that has no destination link left has neither a contents
\* file nor a content directory under data/.
C5_NoOrphanContents ==
    \A c \in Mails :
        (faults = 0 /\ enq.mail # c /\ \A d \in MsgDests(c) : LinkDirs(d) = {}) =>
            (contents[c] = "absent" /\ ~mail_dir[c])

\* C6: when the process is killed (no I/O fault having happened), every
\* destination linked from queue/ or inflight/ has a readable metadata, a
\* readable schedule and its contents.
C6_CrashRecoverable ==
    [][(crashes' = crashes + 1 /\ faults = 0) =>
          \A d \in links'["queue"] \cup links'["inflight"] :
              /\ Readable(metadata'[d])
              /\ from_reader(schedule'[d]).ok
              /\ contents'[d[1]] # "absent"]_vars

\* C7: when a cleanup called on a handle that names the link in cleanup/
\* returns Ok, no other operation being under way and no I/O fault having
\* happened, the link is no longer in cleanup/.
C7_CleanupIdempotent ==
    [][\A w \in Workers :
          (/\ mail[w].type = "PendingCleanup"
           /\ Resolve("cleanup", mail[w]) = "cleanup"
           /\ ret'[w].op = "cleanup" /\ ret'[w].res \in {"true", "false"}
           /\ pc'[w] = "idle" /\ mail'[w] = NoMail
           /\ faults = 0
           /\ \A v \in Workers \ {w} : pc[v] = "idle") =>
              mail[w].id \notin links'["cleanup"]]_vars

\* C8: the schedule file of a destination whose link is in inflight/ is never
\* rewritten (no fault, no crash).
C8_InflightScheduleStable ==
    [][(faults = 0 /\ crashes = 0) =>
          \A d \in links["inflight"] \cap links'["inflight"] :
              schedule'[d].exists => schedule'[d] = schedule[d]]_vars

\* C9: when send_cancel returns the Queued handle of a destination that the
\* same worker claimed with send_start, through a handle commit returned and
\* while the handle's schedule was the one on disk, the link is in queue/ and
\* not in inflight/, and the on-disk schedule and the handle's schedule are
\* still that schedule.
C9_StartCancelRoundTrip ==
    [][\A w \in Workers :
          (/\ ops' = ops + 1
           /\ ret'[w].op = "send_cancel" /\ ret'[w].res = "Some"
           /\ mail[w].via = "send_start" /\ mail[w].kind = "name"
           /\ faults = 0 /\ crashes = 0
           /\ from_reader(mail[w].orig).ok
           /\ from_reader(mail[w].orig).val = mail[w].schedule) =>
              /\ mail[w].id \in links'["queue"]
              /\ mail[w].id \notin links'["inflight"]
              /\ schedule'[mail[w].id] = mail[w].orig
              /\ mail'[w].schedule = mail[w].schedule]_vars

\* C10: at the step where reschedule(d, s) returns Ok, the schedule file of
\* d parses to s and the handle's cached schedule is s.
C10_RescheduleReadBack ==
    [][\A w \in Workers :
          (pc[w] = "rs_rename" /\ ret'[w].op = "reschedule" /\ ret'[w].res = "Ok") =>
              /\ from_reader(schedule'[mail[w].id]).ok
              /\ from_reader(schedule'[mail[w].id]).val = tmp_sched_file[w].schedule
              /\ mail'[w].schedule = tmp_sched_file[w].schedule]_vars

\* C10 witness: two reschedules of one destination with different schedules
\* have returned Ok, and the file reads as the later one.
C10_Witness ==
    \E w, v \in Workers :
        /\ w # v
        /\ ret[w] = Ret("reschedule", "Ok", ret[v].id)
        /\ ret[v].op = "reschedule" /\ ret[v].res = "Ok"
        /\ mail[w].schedule # mail[v].schedule
        /\ last_written[ret[w].id] = <<mail[w].schedule>>
        /\ from_reader(schedule[ret[w].id]).val = mail[w].schedule

\* ------------------------------------------------- claims on the session
Last(q) == q[Len(q)]

\* handle_line has run on a line spelling `verb` and its reply was sent.
Handled(verb) ==
    /\ nlines' = nlines + 1
    /\ line'.verb = verb
    /\ conn' # "failed"
    /\ Len(replies') = Len(replies) + 1

\* The last step of the session was the final reply of a DATA command that
\* had an open transaction with a recipient.
DataDone ==
    /\ conn = "read"
    /\ line.verb = "DATA"
    /\ Len(replies) > 0
    /\ Last(replies).n = nlines
    /\ Last(replies).via \notin {"data_before_mail", "data_before_rcpt"}

\* C11: once a DATA issued in a transaction with a recipient has got its
\* final reply (accepted, refused by the policy or aborted), no transaction
\* is open, and a RCPT TO that follows is answered by rcpt_before_mail.
C11_DataClearsMailState ==
    [][/\ DataDone' => mail_meta' = <<>>
       /\ (DataDone /\ Handled("RCPT")) => Last(replies').via = "rcpt_before_mail"]_vars

\* C12: a MAIL FROM received while a transaction is open is answered 503
\* (already_in_mail), filter_from is not called and the transaction is
\* unchanged.
C12_MailInMail ==
    [][(Handled("MAIL") /\ mail_meta # <<>>) =>
          /\ Last(replies').code = 503
          /\ Last(replies').via = "already_in_mail"
          /\ "filter_from" \notin called'
          /\ mail_meta' = mail_meta]_vars

\* C12 witness: a MAIL FROM has just been answered already_in_mail in a
\* transaction that still has its recipient.
C12_Witness ==
    /\ conn = "read" /\ line.verb = "MAIL"
    /\ Len(replies) > 0 /\ Last(replies).via = "already_in_mail"
    /\ mail_meta # <<>> /\ mail_meta[1].to # <<>>

\* C13: RCPT TO or DATA with no open transaction is answered 503 by
\* rcpt_before_mail or data_before_mail, no callback is called, handle_mail
\* does not run and no transaction is open afterwards.
C13_NoTransaction ==
    [][(mail_meta = <<>> /\ (Handled("RCPT") \/ Handled("DATA"))) =>
          /\ Last(replies').code = 503
          /\ Last(replies').via =
                (IF line'.verb = "RCPT" THEN "rcpt_before_mail" ELSE "data_before_mail")
          /\ called' = {}
          /\ conn' = "read"
          /\ handled' = handled
          /\ mail_meta' = <<>>]_vars

\* C13 witness: after a mail went through handle_mail, a RCPT TO and then a
\* DATA have been answered by rcpt_before_mail and data_before_mail.
C13_Witness ==
    /\ Len(handled) = 1 /\ Len(replies) > 1
    /\ replies[Len(replies) - 1].via = "rcpt_before_mail"
    /\ Last(replies).via = "data_before_mail"
    /\ mail_meta = <<>>

\* C14: DATA in a transaction without recipient is answered 503 by
\* data_before_rcpt, handle_mail does not run, no 354 is sent and the
\* transaction stays as it was.
C14_DataBeforeRcpt ==
    [][(Handled("DATA") /\ mail_meta # <<>> /\ mail_meta[1].to = <<>>) =>
          /\ Last(replies').code = 503
          /\ Last(replies').via = "data_before_rcpt"
          /\ called' = {}
          /\ conn' = "read"
          /\ handled' = handled
          /\ mail_meta' = mail_meta]_vars

\* C14 witness: a DATA was answered data_before_rcpt and the RCPT TO after it
\* was accepted into the transaction of the same sender.
C14_Witness ==
    /\ Len(replies) > 1
    /\ replies[Len(replies) - 1].via = "data_before_rcpt"
    /\ Last(replies).via = "rcpt_okay"
    /\ mail_meta = <<ServerMailMetadata(<<"a">>, <<"b">>)>>

\* C15: when filter_from rejects, the reply is the Refusal's code and text
\* and no transaction is opened; a MAIL FROM with no transaction open is
\* always put to filter_from and opens a transaction when it accepts.
C15_RejectedSender ==
    [][/\ (Handled("MAIL") /\ "filter_from" \in called' /\ ~decided'[1].accept) =>
             /\ Last(replies').code = decided'[1].r.code
             /\ Last(replies').via = decided'[1].r.msg
             /\ mail_meta' = <<>>
       /\ (Handled("MAIL") /\ mail_meta = <<>>) =>
             /\ "filter_from" \in called'
             /\ decided'[1].accept =>
                   /\ Last(replies').via = "mail_okay"
                   /\ mail_meta' = <<ServerMailMetadata(line'.arg, <<>>)>>]_vars

\* C15 witness: a MAIL FROM was rejected with 503 "bad sequence", the RCPT TO
\* after it got rcpt_before_mail and the next MAIL FROM was accepted.
C15_Witness ==
    /\ Len(replies) > 2
    /\ replies[Len(replies) - 2].via = "bad sequence"
    /\ replies[Len(replies) - 1].via = "rcpt_before_mail"
    /\ Last(replies).via = "mail_okay"
    /\ mail_meta # <<>>

C17_QuitCloses ==
    [][/\ Handled("QUIT") => (Last(replies').code = 221 /\ conn' = "closed")
       /\ line.verb = "QUIT" => nlines' = nlines]_vars

\* C18: EHLO, HELO and RSET are answered 250 and leave no transaction open.
C18_ResetCommands ==
    [][(Handled("EHLO") \/ Handled("HELO") \/ Handled("RSET")) =>
          (Last(replies').code = 250 /\ mail_meta' = <<>>)]_vars

\* C19: a line that does not parse is answered 500 and a parsed command other
\* than MAIL, RCPT and DATA is answered 502; either way the session goes on
\* to the next line, no callback is called and the transaction is unchanged.
C19_UnknownCommands ==
    [][(nlines' = nlines + 1 /\ conn' # "failed"
            /\ Command_parse(line').cmd \notin {"Mail", "Rcpt", "Data"}) =>
          /\ Last(replies').code = IF Command_parse(line').ok THEN 502 ELSE 500
          /\ Len(replies') = Len(replies) + 1
          /\ conn' = "read"
          /\ called' = {}
          /\ mail_meta' = mail_meta]_vars

\* C19 witness: inside a transaction with a recipient a QUIT got 502, then a
\* line that does not parse got 500, and the transaction is still there.
C19_Witness ==
    /\ conn = "read" /\ Len(replies) > 1
    /\ line.verb = "garbage"
    /\ replies[Len(replies) - 1].code = 502
    /\ Last(replies).code = 500
    /\ mail_meta # <<>> /\ mail_meta[1].to # <<>>

RepliesTo(k) == {i \in DOMAIN replies : replies[i].n = k}

C21_NeverPanics == conn # "panicked"

\* ------------------------------- claims on handle_mail of the main program
\* C22: when the input ends inside the DATA payload, before the terminator,
\* handle_mail returns Reject with the internal-server-error reply (451),
\* commit is never called for the message and no destination of it is ever a
\* link in queue/.
C22_InterruptedData ==
    \A c \in Mails :
        hmail[c].stream = "EndOfInput" =>
            /\ hmail[c].decision = Decision_Reject(internal_server_error)
            /\ hmail[c].decision.reply.code = 451
            /\ hmail[c].commits = 0
            /\ \A d \in MsgDests(c) : d \notin published /\ d \notin links["queue"]

\* C22 witness: handle_mail has returned for a message whose payload was cut
\* short, the contents file it wrote to being still there.
C22_Witness ==
    \E c \in Mails :
        /\ hmail[c].stream = "EndOfInput"
        /\ hmail[c].enqueues = 1
        /\ contents[c] = "unflushed"
        /\ enq.pc = "idle"

\* C23: a DATA that handle_mail accepts has caused one enqueue and one commit;
\* commit has published one link in queue/ per recipient and no other; at
\* its publication a destination has its own metadata (the sender and its
\* recipient), the schedule (at = now, last_attempt = none), and the flushed
\* contents file of the one content directory it lies in.
C23_OneEnqueueOneCommit ==
    [][/\ \A d \in published' \ published :
             /\ d \in links'["queue"]
             /\ dest_dir'[d] /\ mail_dir'[d[1]]
             /\ metadata'[d] = FileWith(<<d[1], d[2]>>)
             /\ from_reader(schedule'[d]).ok
             /\ from_reader(schedule'[d]).val = ScheduleInfo(0, <<>>)
             /\ contents'[d[1]] = "flushed"
       /\ \A c \in Mails :
             (hmail[c].decision = NoDecision /\ hmail'[c].decision.kind = "Accept") =>
                 /\ hmail'[c].decision = Decision_Accept(okay_mail)
                 /\ hmail'[c].stream = "Finished"
                 /\ hmail'[c].enqueues = 1
                 /\ hmail'[c].commits = 1
                 /\ published' \cap MsgDests(c) = {<<c, k>> : k \in 1..enq.n}
                 /\ {m.id : m \in returned'} = {<<c, k>> : k \in 1..enq.n}]_vars

\* C24: when handle_mail rejects because of a storage error in enqueue or in
\* commit, its reply is the internal-server-error rejection and no destination
\* of the message is a link in queue/, inflight/ or cleanup/.
C24_StorageErrorRejects ==
    [][\A c \in Mails :
          (/\ hmail[c].decision = NoDecision
           /\ hmail'[c].decision.kind = "Reject"
           /\ hmail'[c].stream \in {"none", "Finished"}) =>
              /\ hmail'[c].decision = Decision_Reject(internal_server_error)
              /\ \A d \in MsgDests(c) : LinkDirs(d)' = {}]_vars

\* -------------------------------------------------- claims on the client
\* C25: after an attempt that failed with a transient severity the queue
\* reschedules the destination (send_cancel and reschedule: it is back in
\* queue/) and does not drop it to cleanup/; only a permanent severity makes
\* the queue drop the destination.
C25_TransientRescheduled ==
    effect # "none" =>
        /\ failure \in Transient => effect = "reschedule"
        /\ effect = "drop" => failure \in Permanent

\* C26: the failure handed to the queue for the error connect returned is
\* NetworkTransient for the DNS, connect, socket, timeout, aborted, oversize
\* and unexpected-code errors, MailSystemTransient for a syntax error, and for
\* a Transient* or Permanent* reply error the severity of the same name; a
\* permanent failure comes with a 5xx reply only.
C26_Severity ==
    failure # "none" =>
        LET v == result.err.variant
            NetworkVariants ==
                {"DnsMx", "HostToTrustDns", "DnsIp", "Connecting", "ReceivingReplyBytes",
                 "TimedOutWaitingForReply", "TimedOutSendingCommand", "SendingCommand",
                 "ConnectionAborted", "TooLongReply", "UnexpectedReplyCode"}
        IN  /\ v \in NetworkVariants => failure = "NetworkTransient"
            /\ v = "SyntaxError" => failure = "MailSystemTransient"
            /\ v = "TransientMail" => failure = "MailTransient"
            /\ v = "TransientMailbox" => failure = "MailboxTransient"
            /\ v = "TransientMailSystem" => failure = "MailSystemTransient"
            /\ v = "PermanentMail" => failure = "MailPermanent"
            /\ v = "PermanentMailbox" => failure = "MailboxPermanent"
            /\ v = "PermanentMailSystem" => failure = "MailSystemPermanent"
            /\ failure \in Permanent => result.err.reply.code \in 500..599

\* C26 witness: the queue was handed MailboxPermanent for a 550 reply with a
\* mailbox subject, the first error of a connect whose later attempts failed
\* too.
C26_Witness ==
    /\ failure = "MailboxPermanent"
    /\ result.err.reply = Reply(550, <<"Mailbox">>)
    /\ Len(attempts) > 1

\* C27: verify_reply(r, PositiveCompletion) is Ok for every 2xx reply, whatever
\* its enhanced code: a Sender was greeted with 2xx replies and no error
\* carries a 2xx reply; a 4xx reply gives TransientMailbox, TransientMailSystem
\* or TransientMail and a 5xx reply PermanentMailbox, PermanentMailSystem or
\* PermanentMail by the subject of its enhanced code, the Mail variant when
\* there is none; a reply of any other class gives UnexpectedReplyCode.
C27_VerifyReply ==
    /\ result.kind = "Ok" =>
          (result.banner.code \in 200..299 /\ result.ehlo.code \in 200..299)
    /\ \A e \in {result.err} \cup {first_error[i] : i \in DOMAIN first_error}
                  \cup {host_error[i] : i \in DOMAIN host_error}
                  \cup {first_failed[i] : i \in DOMAIN first_failed} :
          LET r == e.reply
              NoReplyVariants ==
                  {"DnsMx", "HostToTrustDns", "DnsIp", "Connecting", "ReceivingReplyBytes",
                   "TimedOutWaitingForReply", "TimedOutSendingCommand", "SendingCommand",
                   "ConnectionAborted", "TooLongReply", "SyntaxError"}
              class == IF r.code \in 400..499 THEN "Transient"
                       ELSE IF r.code \in 500..599 THEN "Permanent" ELSE "other"
              subject == IF r.ecode = <<"Mailbox">> THEN "Mailbox"
                         ELSE IF r.ecode = <<"MailSystem">> THEN "MailSystem" ELSE "Mail"
          IN  e # NoError =>
              /\ r # NoReply <=> e.variant \notin NoReplyVariants
              /\ r # NoReply =>
                    /\ r.code \notin 200..299
                    /\ (class = "Transient" /\ subject = "Mailbox") => e.variant = "TransientMailbox"
                    /\ (class = "Transient" /\ subject = "MailSystem") =>
                            e.variant = "TransientMailSystem"
                    /\ (class = "Transient" /\ subject = "Mail") => e.variant = "TransientMail"
                    /\ (class = "Permanent" /\ subject = "Mailbox") => e.variant = "PermanentMailbox"
                    /\ (class = "Permanent" /\ subject = "MailSystem") =>
                            e.variant = "PermanentMailSystem"
                    /\ (class = "Permanent" /\ subject = "Mail") => e.variant = "PermanentMail"
                    /\ class = "other" => e.variant = "UnexpectedReplyCode"
                    /\ r.ecode = <<>> => e.variant \in {"TransientMail", "PermanentMail",
                                                        "UnexpectedReplyCode"}

\* C27 witness: a first address answered 450 with a mailbox subject
\* (TransientMailbox), and the Sender comes from an address whose EHLO reply
\* was a 250 with a mailbox subject.
C27_Witness ==
    /\ result.kind = "Ok"
    /\ result.ehlo = Reply(250, <<"Mailbox">>)
    /\ first_failed = <<TransportError("TransientMailbox", Reply(450, <<"Mailbox">>), NoIp)>>

\* C28: connect_to_mx attempts every exchange of a lower preference value
\* before any of a higher one, all the exchanges of one level before it moves
\* to the next, and each exchange at most once.
C28_EachExchangeOnce ==
    LET starts == {i \in DOMAIN attempts :
                      /\ attempts[i].mx[1] # 0
                      /\ attempts[i].ip = NoIp \/ attempts[i].ip[2] = 1}
        left == mx_records \cup {mxes[i] : i \in DOMAIN mxes}
    IN  /\ \A i, j \in starts : i < j => attempts[i].mx[1] <= attempts[j].mx[1]
        /\ \A i \in starts : \A r \in left : attempts[i].mx[1] <= r[1]
        /\ \A i, j \in starts : i # j => attempts[i].mx[2] # attempts[j].mx[2]

\* C28, amended: connect_to_mx attempts every MX record of a lower preference
\* value before any of a higher one, all the records of one level before it
\* moves to the next, and each MX record at most once; an exchange listed
\* under two preference values is attempted once for each.
C28_EachRecordOnce ==
    LET starts == {i \in DOMAIN attempts :
                      /\ attempts[i].mx[1] # 0
                      /\ attempts[i].ip = NoIp \/ attempts[i].ip[2] = 1}
        left == mx_records \cup {mxes[i] : i \in DOMAIN mxes}
    IN  /\ \A i, j \in starts : i < j => attempts[i].mx[1] <= attempts[j].mx[1]
        /\ \A i \in starts : \A r \in left : attempts[i].mx[1] <= r[1]
        /\ \A i, j \in starts : i # j => attempts[i].mx # attempts[j].mx

\* C28 witness: the lookup gave 10 a, 10 b and 20 a; b was tried first, then a
\* for its record of preference 10, then a for its record of preference 20,
\* and connect_to_mx has returned.
C28_Witness ==
    /\ cpc = "done"
    /\ Len(attempts) = 3
    /\ attempts[1].mx = <<10, "b">>
    /\ attempts[2].mx = <<10, "a">>
    /\ attempts[3].mx = <<20, "a">>

C30_FirstTcpConnectWins ==
    first_tcp # <<>> =>
        /\ first_tcp[1] = Len(attempts)
        /\ result.kind = "Ok" => result.ip = attempts[first_tcp[1]].ip

\* C31: when the MX lookup of a domain answers with zero records the client
\* asks for the addresses of the host itself (one lookup_ip of the host, unless
\* the host name does not convert) and attempts those addresses, in order, on
\* port 25; an IP literal is connected to directly, on port 25, with no
\* resolver query at all.
C31_FallbackAndLiteral ==
    /\ (dest = "domain" /\ dns[1] = Query("MX", "host", 0)) =>
          /\ cpc \in {"fallback", "connect_to_host", "done", "panicked"}
          /\ Len(dns) <= 2
          /\ Len(dns) = 2 => (dns[2].q = "IP" /\ dns[2].name = "host")
          /\ (cpc = "done" /\ result.err.variant # "HostToTrustDns") => Len(dns) = 2
          /\ \A i \in DOMAIN attempts :
                /\ attempts[i].mx = <<0, "host">>
                /\ attempts[i].port = 25
                /\ attempts[i].ip # NoIp =>
                      /\ attempts[i].ip[1] = "host"
                      /\ attempts[i].ip[2] <= dns[2].answer
                      /\ \A j \in 1..(i - 1) : attempts[j].ip[2] < attempts[i].ip[2]
          /\ result.kind = "Ok" => result.ip = attempts[Len(attempts)].ip
    /\ dest = "ip" =>
          /\ dns = <<>>
          /\ Len(attempts) = 1
          /\ attempts[1].ip = IpAddr("literal", 1)
          /\ attempts[1].port = 25
          /\ result.kind = "Ok" => result.ip = IpAddr("literal", 1)

\* C31 witness: the MX lookup gave no record, lookup_ip of the host gave two
\* addresses, the first failed and the Sender is connected to the second.
C31_Witness ==
    /\ dns = <<Query("MX", "host", 0), Query("IP", "host", 2)>>
    /\ Len(attempts) = 2
    /\ result.kind = "Ok"
    /\ result.ip = IpAddr("host", 2)

\* C39: connect returns Ok(Sender) or Err(TransportError) and never panics,
\* whatever the resolver answers.
C39_ConnectNeverPanics ==
    /\ cpc # "panicked"
    /\ cpc = "done" => result.kind \in {"Ok", "Err"}


\* C32: read_reply returns TooLongReply exactly when the unparsed bytes of a
\* reply that is still incomplete occupy the whole read buffer (they start at
\* offset 0 and end at the buffer's size); no step reads or writes outside
\* the buffer, whose size never changes; and the queue classifies
\* TooLongReply as a transient network failure.
C32_TooLongReply ==
    [][/\ rpc = "loop" =>
            ((rr'.kind = "Err" /\ rr'.variant = "TooLongReply")
                <=> (/\ Reply_parse(unparsed).kind = "Incomplete"
                     /\ unhandled.start = 0
                     /\ unhandled.end = RDBUF_SIZE))
       /\ rpc # "loop" => rr'.variant # "TooLongReply"
       /\ Len(rdbuf') = RDBUF_SIZE
       /\ unhandled'.start >= 0
       /\ unhandled'.end <= RDBUF_SIZE
       /\ severity(TransportError("TooLongReply", NoReply, NoIp)) = "NetworkTransient"
      ]_vars

\* The second read_reply of a connection gave up on a reply longer than the
\* buffer, after the bytes left by the first were moved to offset 0.
C32_Witness ==
    /\ nreplies = 2
    /\ moved = 1
    /\ rr = ReadFailed("TooLongReply")
    /\ unhandled = [start |-> 0, end |-> RDBUF_SIZE]
    /\ Len(pending) = RDBUF_SIZE

\* C40: across the read_reply calls of one connection 0 <= unhandled.start <=
\* unhandled.end <= RDBUF_SIZE; a compaction moves the unparsed bytes to
\* offset 0 with the same content and length, and happens only when the free
\* space at the tail is below the needed minimum; the bytes received after a
\* complete reply are kept, and the next call parses them before it reads.
C40_UnhandledRange ==
    [][/\ 0 <= unhandled'.start
       /\ unhandled'.start <= unhandled'.end
       /\ unhandled'.end <= RDBUF_SIZE
       /\ pending' = SubSeq(rdbuf', unhandled'.start + 1, unhandled'.end)
       /\ moved' # moved =>
             /\ rpc = "loop"
             /\ unhandled'.start = 0
             /\ missing(needed') > RDBUF_SIZE - unhandled.end
             /\ SubSeq(rdbuf', 1, unhandled.end - unhandled.start) = unparsed
             /\ unhandled'.end >= unhandled.end - unhandled.start
             /\ SubSeq(pending', 1, Len(pending)) = pending
       /\ (rpc = "loop" /\ rr'.kind = "Ok") =>
             /\ rr'.reply \o pending' = pending
             /\ rdbuf' = rdbuf
       /\ (rpc = "idle" /\ pending # <<>>) =>
             /\ rdbuf' = rdbuf
             /\ pending' = pending
             /\ rpc' = "loop"
       /\ (rpc = "loop" /\ Reply_parse(pending).kind = "Ok") =>
             /\ rr' = ReplyRead(Reply_parse(pending).reply)
             /\ rdbuf' = rdbuf
      ]_vars

\* The second call returned a reply out of bytes the first call had left,
\* completed after a compaction.
C40_Witness ==
    /\ nreplies = 2
    /\ moved = 1
    /\ rr.kind = "Ok"
    /\ unhandled.start = Len(rr.reply)
    /\ unhandled.start < unhandled.end
    /\ needed = MINIMUM_FREE_BUFSPACE + 1


\* C38: at the step where reschedule returns an error, the schedule file of
\* the destination is the one it was, and the schedule cached in the Queued
\* handle is the schedule that file holds.
C38_FailedRescheduleKeepsSchedule ==
    [][\A w \in Workers :
          (/\ mail[w].type = "Queued"
           /\ \/ pc[w] \in {"rs_tmp", "rs_rename"}
              \/ pc[w] = "idle" /\ ops' = ops + 1
           /\ ret'[w] = Ret("reschedule", "Err", mail[w].id)) =>
              /\ schedule'[mail[w].id] = schedule[mail[w].id]
              /\ from_reader(schedule'[mail[w].id]).ok =>
                    mail'[w].schedule = from_reader(schedule'[mail[w].id]).val]_vars


\* C35: the QueueId of a handle that list_queue, find_inflight or
\* find_pending_cleanup yields is the name of the destination's symlink, as
\* commit returned it, and a move that succeeds on a handle takes the link
\* out of its source directory and puts it into its target directory.
C35_ListedIdIsLinkName ==
    [][\A w \in Workers :
          /\ (/\ ops' = ops + 1
              /\ ret'[w].op \in {"list_queue", "find_inflight", "find_pending_cleanup"}
              /\ ret'[w].res = "Ok"
              /\ mail[w] = NoMail) =>
                 /\ mail'[w].id = ret'[w].id
                 /\ mail'[w].kind = "name"
          /\ (/\ ops' = ops + 1
              /\ ret'[w].op \in {"send_start", "send_done", "send_cancel", "drop"}
              /\ ret'[w].res = "Some"
              /\ mail[w] # NoMail
              /\ mail'[w] # mail[w]) =>
                 LET src == IF ret'[w].op \in {"send_start", "drop"}
                            THEN "queue" ELSE "inflight"
                     dst == CASE ret'[w].op = "send_start" -> "inflight"
                              [] ret'[w].op = "send_cancel" -> "queue"
                              [] OTHER -> "cleanup"
                 IN  /\ mail[w].id \notin links'[src]
                     /\ mail[w].id \in links'[dst]]_vars


\* C36: a cleanup of a destination whose link is in cleanup/ goes through:
\* with the handle commit's id gave, no other worker inside an operation and
\* no fault since, the removal of the destination directory does not fail,
\* whatever an earlier reschedule left behind.  (A cleanup that fails here
\* leaves the directory as it found it, so every later one fails alike and
\* the destination is never removed.)
C36_CleanupGoesThrough ==
    [][\A w \in Workers :
          (/\ pc[w] = "cl_rmdir"
           /\ pc'[w] = "idle"
           /\ mail[w].kind = "name"
           /\ mail[w].id \in links["cleanup"]
           /\ \A v \in Workers \ {w} : pc[v] = "idle") =>
              ret'[w].res # "Err"]_vars


\* C37: send_start, send_done, send_cancel and drop on a handle whose link is
\* not in the source directory of the operation return None when no I/O fault
\* occurs, and then the three queue directories and every data file are as
\* they were; when they return an error the worker still has the handle and
\* no link has moved.
C37_LostRaceIsNone ==
    [][\A w \in Workers : \A op \in {"send_start", "send_done", "send_cancel", "drop"} :
          LET src == IF op \in {"send_start", "drop"} THEN "queue" ELSE "inflight"
              type == IF op \in {"send_start", "drop"} THEN "Queued" ELSE "Inflight"
          IN  (/\ ops' = ops + 1
               /\ pc[w] = "idle"
               /\ mail[w].type = type
               /\ ret'[w].op = op
               /\ ret'[w].id = mail[w].id
               /\ \A v \in Workers \ {w} : mail'[v] = mail[v] /\ pc'[v] = pc[v]
               /\ mail'[w].type # "Queued" \/ mail'[w].schedule = mail[w].schedule) =>
                  /\ (mail[w].id \notin links[src] /\ faults' = faults) =>
                        /\ ret'[w].res = "None"
                        /\ UNCHANGED disk
                  /\ ret'[w].res = "Err" =>
                        /\ mail'[w] = mail[w]
                        /\ links' = links]_vars


\* C33: at the step that makes a destination's symlink visible in queue/ the
\* contents file of its message is there, flushed, and the destination's
\* schedule and metadata files are complete, so that a worker that lists
\* queue/ or claims a listed destination finds all three; and no destination
\* of a message is a link in queue/, inflight/ or cleanup/ before its commit.
C33_PublishedComplete ==
    [][/\ \A d \in links'["queue"] \ (links["queue"] \cup published) :
             /\ contents'[d[1]] = "flushed"
             /\ Readable(metadata'[d])
             /\ schedule'[d] = FileWith(to_writer(InitialSchedule))
       /\ \A c \in Mails :
             hmail'[c].commits = 0 => \A d \in MsgDests(c) : LinkDirs(d)' = {}]_vars


\* C34: list_queue or find_inflight reading the schedule of a published
\* destination that no cleanup has touched gets a whole schedule, the one last
\* written before its read: while a reschedule of the destination is under
\* way that is the previous schedule up to the rename and the new one from
\* then on, and never a missing, empty or partly written file.  No step of
\* reschedule but the rename changes the file.
C34_ScheduleReadWhole ==
    [][/\ \A w \in Workers :
             (/\ ops' = ops + 1
              /\ pc[w] = "idle" /\ mail[w] = NoMail
              /\ \A v \in Workers \ {w} : mail'[v] = mail[v] /\ pc'[v] = pc[v]
              /\ ret'[w].op \in {"list_queue", "find_inflight"}
              /\ Readable(metadata[ret'[w].id])) =>
                 /\ ret'[w].res = "Ok"
                 /\ mail'[w] # NoMail
                 /\ <<mail'[w].schedule>> = last_written[ret'[w].id]
       /\ \A d \in links["queue"] \cup links["inflight"] :
             (Readable(metadata[d]) /\ schedule'[d] # schedule[d]) =>
                 /\ \E w \in Workers : pc[w] = "rs_rename" /\ mail[w].id = d
                 /\ from_reader(schedule'[d]).ok
                 /\ <<from_reader(schedule'[d]).val>> = last_written'[d]]_vars

\* A worker has listed a destination, and read the schedule an earlier
\* reschedule wrote, while another worker's reschedule of that destination has
\* written its temporary file and not yet renamed it.
C34_Witness ==
    \E w, v \in Workers :
        /\ pc[v] = "rs_rename"
        /\ ret[w] = Ret("list_queue", "Ok", mail[v].id)
        /\ mail[w].type = "Queued"
        /\ <<mail[w].schedule>> = last_written[mail[v].id]
        /\ mail[w].schedule # InitialSchedule
        /\ mail[w].schedule # tmp_sched_file[v].schedule
        /\ schedule[mail[v].id] = FileWith(to_writer(mail[w].schedule))

====
